---- MODULE Spec2Model ----
(***************************************************************************)
(* A state-machine model of the voice agent's per-call streaming core:     *)
(*   - lib/interruption_handler.py : SpeechQueue, AudioPlaybackController, *)
(*                                   InterruptionHandler                   *)
(*   - lib/audio_buffer.py         : AudioBuffer and its playback task     *)
(*   - lib/streaming_orchestrator.py : LatencyTracker, StreamCoordinator,  *)
(*                                   StreamingOrchestrator                 *)
(*                                                                         *)
(* Time is the wall clock (time.time()) in milliseconds.  None is NoTime.  *)
(* asyncio is cooperative: a coroutine runs atomically from one suspension *)
(* point to the next, so every action below is the code between two awaits *)
(* that really suspend.  Pure statistics that no branch ever reads         *)
(* (underruns, total_bytes_played, total_interruptions, the latency lists, *)
(* playback ids) are left out of the state.                                *)
(***************************************************************************)
EXTENDS Integers, Sequences, FiniteSets, TLC

(***************************************************************************)
(* Bounds of the model (not program constants).                            *)
(***************************************************************************)
MaxTime   == 300      \* the clock stops advancing here
MaxChunks == 3        \* add_audio calls in a run of the buffer alone
MaxFrames == 1        \* add_audio calls in a run with the handler
MaxSpeech == 2        \* SpeechQueue.add calls in a run
MaxTasks  == 1        \* playback tasks start_playback may create in a run
Delta     == {100}    \* clock increments (ms)
AudioSizes == {2000, 3000}   \* byte lengths of the chunks handed to add_audio
Priorities == {0, 1}         \* priorities handed to SpeechQueue.add
MaxRuns   == 2        \* process_transcript calls in a run
MaxTokens == 2        \* tokens the LLM client yields to one call
MaxAudio  == 1        \* audio frames the TTS side produces for one call
stream_chunk_size == 3       \* streaming.stream_chunk_size as configured
CallIds  == {<<"c", "1">>}                      \* call_id arguments
TokenSet == {<<"a">>, <<"b", ".">>}             \* tokens of the LLM
MaxReqs   == 3        \* API requests in a run
max_concurrent == 1   \* calls.max_concurrent as configured
CallControlIds == {"k1", "k2"}                  \* call ids the carrier hands out
MaxFiller == 2        \* inject_filler_word calls in a run
FillerWords == {"", "um"}                       \* words handed to inject_filler_word
PipeCall == "k1"                                \* the call whose pipeline is modelled
MaxSpeaks == 2        \* calls of MediaStreamHandler.speak in a run
MaxTtsChunks == 2     \* chunks synthesize_stream yields for one text
MaxStreams == 2       \* calls of DeepgramSTT.start_stream in a run, one after another
MaxConnects == 4      \* connection attempts counted per call of start_stream
MaxLlmCalls == 5      \* calls of LLMClient._check_rate_limit in a run
MaxClock == 130       \* the rate limiter's clock stops here
ClockSteps == {25, 40}                          \* seconds the clock advances by
rate_limit_per_minute == 2                      \* config rate_limit.requests_per_minute
MaxContext == 3       \* turns in the conversation context handed to the LLM client
MaxHistory == 2       \* largest configured max_history_turns
MaxBuilds == 1        \* calls of _build_messages in a run
ContextTurns == {[role |-> "user", content |-> <<"h", "i">>],
                 [role |-> "assistant", content |-> <<"o", "k">>],
                 [role |-> "system", content |-> <<"s">>],
                 [role |-> "user", content |-> <<" ">>]}
UserMessages == {<<"y">>}
MaxQueued == 3        \* SpeechQueue.add calls in a run of the queue alone
MaxBurst == 11        \* frames the TTS delivers in a run of one turn alone
MaxPlaybacks == 2     \* playbacks started in a run of the buffer alone
MaxVadEvents == 3     \* events the STT sends to EnhancedVAD.on_deepgram_vad_event
MaxVadFrames == 20    \* frames fed to EnhancedVAD.process_audio_frame
MaxLoud == 1          \* of which loud ones
EnergyLevels == {0, 1000}                       \* frame energy, in thousandths
MaxCoordCalls == 4    \* calls made to the stand-alone StreamCoordinator
LongLen == 200        \* length of the long token
LongToken == [i \in 1..LongLen |-> "x"]
CoordTokens == {<<"a">>, <<".", " ">>, <<"?">>, <<"!">>, <<",">>, <<",", " ">>, LongToken}
MaxGens == 1          \* calls of LLMClient.generate / generate_stream
MaxYield == 3         \* tokens one generate_stream call yields in all
GenTokens == {"a", "b"}                         \* texts the API streams
PrefixCalls == {<<"c", "1">>, <<"c", "1", "0">>}  \* call ids, one a prefix of the other
MaxTurns == 11        \* calls of ConversationContext.add_turn in a run
TurnSet == {<<"user", "hi">>, <<"assistant", "ok">>}   \* (speaker, text) of a turn

(***************************************************************************)
(* Program constants: the constructor defaults.                            *)
(***************************************************************************)
NoTime == -1                      \* Optional[float] = None
enabled == TRUE                   \* interruption.enabled
require_confident_speech == TRUE  \* interruption.require_confident_speech
min_speech_duration_ms == 200
debounce_ms == 50
jitter_buffer_ms == 100
kept_turns == 10
max_attempts == 3
initial_backoff_ms == 100
max_backoff_ms == 2000
exponential_base == 2
chunk_size == 512
energy_threshold == 20
energy_window_size == 10
minute == 60
max_reconnect_attempts == 3
max_buffer_ms == 500
sample_rate == 8000
clause_min_len == 100             \* StreamCoordinator.add_token
queue_maxsize == 10               \* asyncio.Queue(maxsize=10)

\* AudioBuffer.__init__: int(sample_rate * max_buffer_ms / 1000)
max_buffer_size == (sample_rate * max_buffer_ms) \div 1000
\* AudioBuffer.start_playback: int(sample_rate * jitter_buffer_ms / 1000)
target_bytes == (sample_rate * jitter_buffer_ms) \div 1000

VARIABLES
    \* ---- the wall clock
    now,
    \* ---- InterruptionHandler
    state,                  \* InterruptionState value
    last_vad_event_time,
    speech_start_time,
    false_positives,
    \* ---- SpeechQueue
    speech_queue,           \* sequence of [id, priority]
    next_speech_id,
    current_speech_id,
    \* ---- AudioPlaybackController
    controller_is_playing,
    \* ---- AudioBuffer
    buffer,                 \* deque of chunks [id, len]
    total_buffered_bytes,
    buffer_is_playing,
    interrupted,
    on_chunk_callback,      \* TRUE once start_playback stored a sink
    overruns,
    tasks,                  \* the playback tasks created so far, by position;
                            \* self.playback_task is the last one
    starters,               \* start_playback callers waiting in the jitter fill
    \* ---- observation (history) variables
    sink,                   \* ids of the chunks handed to the sink, in order
    handed,                 \* number of chunks handed to add_audio
    cleared,                \* ids discarded by interrupt, reset, or add_audio
                            \* while interrupted
    barged_interval,        \* the current speech interval caused a barge-in
    delivered_speaking,     \* the last step was on_speech_started delivered
                            \* to an enabled handler whose state was SPEAKING
    \* ---- StreamingOrchestrator
    streaming_cfg,          \* llm_streaming_enabled and tts_websocket_mode
    active_pipelines,       \* keys of self.active_pipelines (every value is True)
    start_times,            \* keys of latency_tracker.start_times
    runs,                   \* the process_transcript calls made so far
    \* ---- api_server
    active_calls,           \* keys of the active_calls dict
    reqs,                   \* the API requests received so far
    removed,                \* history: the calls popped from active_calls
    \* ---- AudioPipeline and the PipelineInstance of one call
    pipelines,              \* keys of AudioPipeline.pipelines
    pl_started,             \* start_pipeline has created the instance
    running,                \* PipelineInstance.running
    audio_pc,               \* where _process_audio is suspended
    filler_pc,              \* where _process_filler_words is suspended
    monitor_pc,             \* where _monitor_pipeline is suspended
    filler_queue,           \* PipelineInstance.filler_queue
    start_done,             \* PipelineInstance.start (the gather) has returned
    llm_inputs,             \* history: the is_final flags of the STT results
                            \* passed to llm_client.generate_response
    \* ---- MediaStreamHandler of one session (websocket_server.py)
    ms_active,              \* MediaStreamHandler.active
    ms_is_speaking,         \* MediaStreamHandler.is_speaking
    user_speaking,          \* MediaStreamHandler.user_speaking
    speaks,                 \* the calls of speak: where each is suspended, the
                            \* chunks it has sent and the turns it has added
    \* ---- ConversationContext of one call (lib/conversation.py)
    turns,                  \* ConversationContext.turns
    turn_count,             \* ConversationContext.metadata["turn_count"]
    added,                  \* history: every turn handed to add_turn, in order
    \* ---- DeepgramSTT, one instance (lib/deepgram_client.py)
    reconnect_attempts,     \* DeepgramSTT.reconnect_attempts
    websocket,              \* DeepgramSTT.websocket: "none", "open" or "closed"
    stt_pc,                 \* where the running start_stream is suspended
    streams,                \* the calls of start_stream, in order: connection
                            \* attempts, results yielded, how each ended and why
    \* ---- LLMClient rate limiter (lib/llm_client.py)
    clock,                  \* time.time(), in seconds since the client was made
    requests_this_minute,   \* LLMClient.requests_this_minute
    minute_start,           \* LLMClient.minute_start
    sleepers,               \* the calls suspended in asyncio.sleep(wait_time):
                            \* the time at which each is due to wake
    passes,                  \* history: the time of every return of _check_rate_limit
    \* ---- LLMClient._build_messages (lib/llm_client.py)
    conversation_context,   \* the history list the caller holds
    built,                   \* the calls of _build_messages: arguments and result
    \* ---- SpeechQueue seen by its caller
    got,                     \* history: the last call of get_next: the queue
    \* ---- AudioBuffer used directly (lib/audio_buffer.py)
    stoppers,               \* the tasks that a suspended stop_playback awaits
    ctl,                     \* history of the calls: an interrupt has not been
    \* ---- EnhancedVAD (lib/enhanced_vad.py)
    vad,                    \* the attributes of the EnhancedVAD object
    vad_obs,                 \* history: callbacks fired, frames and loud frames
    \* ---- a StreamCoordinator by itself (lib/streaming_orchestrator.py)
    coordinator,            \* its attributes buffer and flushed
    coord_obs,               \* history: the calls made, the last method called,
    \* ---- LLMClient.generate / generate_stream (lib/llm_client.py)
    gens,                   \* the calls made, one record each
    llm_stats               \* total_requests, total_tokens_used, total_errors
                            \* the buffer before it, its token and what it returned
                            \* fed, events seen on either path, the time of the
                            \* previous event, the paths that filtered an interval
                            \* followed by start_playback or reset; the number of
                            \* chunks handed in before it; a playback started
                            \* after an interrupt has not been stopped or
                            \* interrupted since
                            \* before it, what it returned, the queue after it

handlerVars == <<state, last_vad_event_time, speech_start_time, false_positives>>
queueVars   == <<speech_queue, next_speech_id, current_speech_id>>
bufferVars  == <<buffer, total_buffered_bytes, buffer_is_playing, interrupted,
                 on_chunk_callback, overruns, tasks, starters>>
obsVars     == <<sink, handed, cleared, barged_interval>>
coreVars    == <<now, handlerVars, queueVars, controller_is_playing, bufferVars,
                 obsVars, delivered_speaking>>

orchVars    == <<streaming_cfg, active_pipelines, start_times, runs>>

apiVars     == <<active_calls, reqs, removed>>
\* the state of the components beside the handler and the orchestrator
pipeVars    == <<pipelines, pl_started, running, audio_pc, filler_pc, monitor_pc,
                 filler_queue, start_done, llm_inputs>>
mediaVars   == <<ms_active, ms_is_speaking, user_speaking, speaks>>
convVars    == <<turns, turn_count, added>>
sttVars     == <<reconnect_attempts, websocket, stt_pc, streams>>
llmVars     == <<clock, requests_this_minute, minute_start, sleepers, passes>>
msgVars     == <<conversation_context, built>>
gotVars     == <<got>>
stopVars    == <<stoppers, ctl>>
vadVars     == <<vad, vad_obs>>
coordVars   == <<coordinator, coord_obs>>
genVars     == <<gens, llm_stats>>
sideVars    == <<apiVars, pipeVars, mediaVars, convVars, sttVars, llmVars, msgVars, gotVars, stopVars, vadVars, coordVars, genVars>>

notApiVars  == <<coreVars, orchVars, pipeVars, mediaVars, convVars, sttVars, llmVars, msgVars, gotVars, stopVars, vadVars, coordVars, genVars>>
notPipeVars == <<coreVars, orchVars, apiVars, mediaVars, convVars, sttVars, llmVars, msgVars, gotVars, stopVars, vadVars, coordVars, genVars>>
notMediaVars == <<coreVars, orchVars, apiVars, convVars, sttVars, llmVars, msgVars, gotVars, stopVars, vadVars, coordVars, genVars>>
notConvVars == <<coreVars, orchVars, apiVars, pipeVars, mediaVars, sttVars, llmVars, msgVars, gotVars, stopVars, vadVars, coordVars, genVars>>
notSttVars  == <<coreVars, orchVars, apiVars, pipeVars, mediaVars, convVars, llmVars, msgVars, gotVars, stopVars, vadVars, coordVars, genVars>>
notLlmVars  == <<coreVars, orchVars, apiVars, pipeVars, mediaVars, convVars, sttVars, msgVars, gotVars, stopVars, vadVars, coordVars, genVars>>
notMsgVars == <<coreVars, orchVars, apiVars, pipeVars, mediaVars, convVars, sttVars, llmVars, gotVars, stopVars, vadVars, coordVars, genVars>>
notCoordVars == <<coreVars, orchVars, apiVars, pipeVars, mediaVars, convVars, sttVars, llmVars, msgVars, gotVars, stopVars, vadVars, genVars>>
notGenVars == <<coreVars, orchVars, apiVars, pipeVars, mediaVars, convVars, sttVars, llmVars, msgVars, gotVars, stopVars, vadVars, coordVars>>
notVadVars == <<handlerVars, queueVars, controller_is_playing, bufferVars, obsVars,
                orchVars, apiVars, pipeVars, mediaVars, convVars, sttVars, llmVars, msgVars, gotVars, stopVars, coordVars, genVars>>
notStopVars == <<now, handlerVars, queueVars, controller_is_playing, barged_interval,
                 orchVars, apiVars, pipeVars, mediaVars, convVars, sttVars, llmVars, msgVars, gotVars, vadVars, coordVars, genVars>>
notQueueVars == <<now, handlerVars, controller_is_playing, bufferVars, obsVars,
                  delivered_speaking, orchVars, apiVars, pipeVars, mediaVars, convVars, sttVars, llmVars, msgVars,
                  stopVars, vadVars, coordVars, genVars>>

vars == <<coreVars, orchVars, sideVars>>

InterruptionState == {"listening", "processing", "speaking", "interrupted"}

(***************************************************************************)
(* Helpers                                                                 *)
(***************************************************************************)
Range(s) == {s[i] : i \in 1..Len(s)}
Ids(s) == {s[i].id : i \in 1..Len(s)}

\* list.sort(key=priority, reverse=True): a stable sort, so an item appended
\* to an already sorted list ends after every item of priority >= its own.
RECURSIVE InsertStable(_, _)
InsertStable(sorted, item) ==
    IF sorted = <<>> THEN <<item>>
    ELSE IF Head(sorted).priority >= item.priority
         THEN <<Head(sorted)>> \o InsertStable(Tail(sorted), item)
         ELSE <<item>> \o sorted

RECURSIVE SortByPriority(_)
SortByPriority(s) ==
    IF s = <<>> THEN <<>>
    ELSE InsertStable(SortByPriority(SubSeq(s, 1, Len(s) - 1)), s[Len(s)])

(***************************************************************************)
(* Initial state: the objects as their constructors leave them.            *)
(***************************************************************************)
InitCore ==
    /\ now \in Delta            \* time.time() is never 0
    /\ state = "listening"
    /\ last_vad_event_time = NoTime
    /\ speech_start_time = NoTime
    /\ false_positives = 0
    /\ speech_queue = <<>>
    /\ next_speech_id = 0
    /\ current_speech_id = NoTime
    /\ controller_is_playing = FALSE
    /\ buffer = <<>>
    /\ total_buffered_bytes = 0
    /\ buffer_is_playing = FALSE
    /\ interrupted = FALSE
    /\ on_chunk_callback = FALSE
    /\ overruns = 0
    /\ tasks = <<>>
    /\ starters = 0
    /\ sink = <<>>
    /\ handed = 0
    /\ cleared = {}
    /\ barged_interval = FALSE
    /\ delivered_speaking = FALSE

InitOrch ==
    /\ streaming_cfg \in BOOLEAN
    /\ active_pipelines = {}
    /\ start_times = {}
    /\ runs = <<>>

InitApi ==
    /\ active_calls = {}
    /\ reqs = <<>>
    /\ removed = {}

InitPipe ==
    /\ pipelines = {}
    /\ pl_started = FALSE
    /\ running = FALSE
    /\ audio_pc = "none"
    /\ filler_pc = "none"
    /\ monitor_pc = "none"
    /\ filler_queue = <<>>
    /\ start_done = FALSE
    /\ llm_inputs = {}

\* a session registered by MediaStreamServer._handle_connection, serving
\* its connection
InitMedia ==
    /\ ms_active = TRUE
    /\ ms_is_speaking = FALSE
    /\ user_speaking = FALSE
    /\ speaks = <<>>

InitConv ==
    /\ turns = <<>>
    /\ turn_count = 0
    /\ added = <<>>

\* DeepgramSTT.__init__
InitStt ==
    /\ reconnect_attempts = 0
    /\ websocket = "none"
    /\ stt_pc = "idle"
    /\ streams = <<>>

\* LLMClient.__init__, at time 0
InitLlm ==
    /\ clock = 0
    /\ requests_this_minute = 0
    /\ minute_start = 0
    /\ sleepers = <<>>
    /\ passes = <<>>

InitMsg ==
    /\ conversation_context = <<>>
    /\ built = <<>>

InitGot == got = [called |-> FALSE, before |-> <<>>, result |-> <<>>, after |-> <<>>]

InitStop ==
    /\ stoppers = {}
    /\ ctl = [since_interrupt |-> FALSE, handed_at |-> 0, restarted |-> FALSE]

\* EnhancedVAD.__init__
InitVad ==
    /\ vad = [is_speech_active |-> FALSE, speech_start_time |-> NoTime,
              last_event_time |-> NoTime, last_deepgram_event |-> "None",
              energy_buffer |-> <<>>, total_speech_events |-> 0,
              deepgram_events |-> 0, local_vad_events |-> 0, filtered_events |-> 0]
    /\ vad_obs = [callbacks |-> <<>>, frames |-> 0, loud |-> 0, events |-> 0,
                  prev_event_time |-> NoTime, filtered_by |-> {}]

\* StreamCoordinator.__init__
InitCoord ==
    /\ coordinator = [buffer |-> <<>>, flushed |-> FALSE]
    /\ coord_obs = [calls |-> 0, called |-> "none", before |-> <<>>,
                    token |-> <<>>, returned |-> [none |-> TRUE, text |-> <<>>]]

\* LLMClient.__init__ (stats), and no call made yet
InitGen ==
    /\ gens = <<>>
    /\ llm_stats = [total_requests |-> 0, total_tokens_used |-> 0, total_errors |-> 0]

InitSide == InitApi /\ InitPipe /\ InitMedia /\ InitConv /\ InitStt /\ InitLlm /\ InitMsg /\ InitGot /\ InitStop /\ InitVad /\ InitCoord /\ InitGen

Init == InitCore /\ InitOrch /\ InitSide

(***************************************************************************)
(* AudioBuffer                                                             *)
(***************************************************************************)
\* task.cancel(): a task that never ran ends without entering its try block;
\* a suspended one gets CancelledError at its await and runs its finally.
CancelTask(pc) ==
    CASE pc = "created"   -> "cancel_unstarted"
      [] pc = "suspended" -> "cancel_pending"
      [] OTHER            -> pc

\* add_audio as it would be if an eviction were not counted as an overrun
add_audio_uncounted(n) ==
    LET chunk == [id |-> handed + 1, len |-> n] IN
    /\ handed' = handed + 1
    /\ IF interrupted
       THEN /\ cleared' = cleared \cup {chunk.id}
            /\ UNCHANGED <<buffer, total_buffered_bytes>>
       ELSE LET appended == Append(buffer, chunk)
                total    == total_buffered_bytes + n
            IN  /\ UNCHANGED cleared
                /\ IF total > max_buffer_size
                   THEN /\ buffer' = Tail(appended)
                        /\ total_buffered_bytes' = total - Head(appended).len
                   ELSE /\ buffer' = appended
                        /\ total_buffered_bytes' = total
    /\ UNCHANGED <<overruns, buffer_is_playing, interrupted, on_chunk_callback,
                   tasks, starters, sink>>

\* AudioBuffer.add_audio(audio_data), len(audio_data) = n
add_audio(n) ==
    LET chunk == [id |-> handed + 1, len |-> n] IN
    /\ handed' = handed + 1
    /\ IF interrupted
       THEN /\ cleared' = cleared \cup {chunk.id}
            /\ UNCHANGED <<buffer, total_buffered_bytes, overruns>>
       ELSE LET appended == Append(buffer, chunk)
                total    == total_buffered_bytes + n
            IN  IF total > max_buffer_size
                THEN /\ buffer' = Tail(appended)
                     /\ total_buffered_bytes' = total - Head(appended).len
                     /\ overruns' = overruns + 1
                     /\ UNCHANGED cleared
                ELSE /\ buffer' = appended
                     /\ total_buffered_bytes' = total
                     /\ UNCHANGED <<overruns, cleared>>
    /\ UNCHANGED <<buffer_is_playing, interrupted, on_chunk_callback, tasks,
                   starters, sink>>

\* AudioBuffer.start_playback(on_chunk), up to its first suspension
start_playback ==
    IF buffer_is_playing
    THEN UNCHANGED <<buffer_is_playing, interrupted, on_chunk_callback, tasks, starters>>
    ELSE /\ on_chunk_callback' = TRUE
         /\ buffer_is_playing' = TRUE
         /\ interrupted' = FALSE
         /\ IF total_buffered_bytes < target_bytes
            THEN /\ starters' = starters + 1
                 /\ UNCHANGED tasks
            ELSE /\ tasks' = Append(tasks, "created")
                 /\ UNCHANGED starters

\* AudioBuffer.start_playback: one wake-up of the jitter-fill loop
\* (asyncio.sleep(0.01) returned); timeout says whether 1.0 s has passed.
JitterWake(timeout) ==
    /\ starters > 0
    /\ IF timeout \/ ~(total_buffered_bytes < target_bytes)
       THEN /\ starters' = starters - 1
            /\ tasks' = Append(tasks, "created")
       ELSE UNCHANGED <<starters, tasks>>
    /\ UNCHANGED <<buffer, total_buffered_bytes, buffer_is_playing, interrupted,
                   on_chunk_callback, overruns>>
    /\ UNCHANGED <<now, handlerVars, queueVars, controller_is_playing, obsVars>>

\* _playback_loop as it would be if it took the newest chunk (pop, not popleft)
PlaybackLoop_newest_first(i) ==
    /\ i \in 1..Len(tasks)
    /\ tasks[i] \in {"created", "suspended"}
    /\ IF buffer_is_playing /\ ~interrupted
       THEN IF buffer = <<>>
            THEN /\ tasks' = [tasks EXCEPT ![i] = "suspended"]
                 /\ UNCHANGED <<buffer, total_buffered_bytes, sink, buffer_is_playing>>
            ELSE /\ buffer' = SubSeq(buffer, 1, Len(buffer) - 1)
                 /\ total_buffered_bytes' = total_buffered_bytes - buffer[Len(buffer)].len
                 /\ sink' = IF on_chunk_callback
                            THEN Append(sink, buffer[Len(buffer)].id) ELSE sink
                 /\ tasks' = [tasks EXCEPT ![i] = "suspended"]
                 /\ UNCHANGED buffer_is_playing
       ELSE /\ buffer_is_playing' = FALSE
            /\ tasks' = [tasks EXCEPT ![i] = "done"]
            /\ UNCHANGED <<buffer, total_buffered_bytes, sink>>
    /\ UNCHANGED <<interrupted, on_chunk_callback, overruns, starters>>
    /\ UNCHANGED <<now, handlerVars, queueVars, controller_is_playing,
                   handed, cleared, barged_interval>>

\* AudioBuffer._playback_loop: task i runs from one await to the next
PlaybackLoop(i) ==
    /\ i \in 1..Len(tasks)
    /\ tasks[i] \in {"created", "suspended"}
    /\ IF buffer_is_playing /\ ~interrupted
       THEN IF buffer = <<>>
            THEN \* underrun: sleep 10 ms and look again
                 /\ tasks' = [tasks EXCEPT ![i] = "suspended"]
                 /\ UNCHANGED <<buffer, total_buffered_bytes, sink, buffer_is_playing>>
            ELSE \* popleft, hand the chunk to the sink, pace
                 /\ buffer' = Tail(buffer)
                 /\ total_buffered_bytes' = total_buffered_bytes - Head(buffer).len
                 /\ sink' = IF on_chunk_callback THEN Append(sink, Head(buffer).id) ELSE sink
                 /\ tasks' = [tasks EXCEPT ![i] = "suspended"]
                 /\ UNCHANGED buffer_is_playing
       ELSE \* the while condition fails: finally
            /\ buffer_is_playing' = FALSE
            /\ tasks' = [tasks EXCEPT ![i] = "done"]
            /\ UNCHANGED <<buffer, total_buffered_bytes, sink>>
    /\ UNCHANGED <<interrupted, on_chunk_callback, overruns, starters>>
    /\ UNCHANGED <<now, handlerVars, queueVars, controller_is_playing,
                   handed, cleared, barged_interval>>

\* AudioBuffer._playback_loop: a cancelled task is scheduled for the last time
PlaybackCancelled(i) ==
    /\ i \in 1..Len(tasks)
    /\ tasks[i] \in {"cancel_unstarted", "cancel_pending"}
    /\ buffer_is_playing' = IF tasks[i] = "cancel_pending" THEN FALSE ELSE buffer_is_playing
    /\ tasks' = [tasks EXCEPT ![i] = "done"]
    /\ UNCHANGED <<buffer, total_buffered_bytes, interrupted, on_chunk_callback,
                   overruns, starters>>
    /\ UNCHANGED <<now, handlerVars, queueVars, controller_is_playing, obsVars>>

\* interrupt as it would be if it did not raise the interrupted flag
AudioBuffer_interrupt_unflagged ==
    /\ buffer_is_playing' = FALSE
    /\ buffer' = <<>>
    /\ total_buffered_bytes' = 0
    /\ cleared' = cleared \cup Ids(buffer)
    /\ tasks' = IF tasks = <<>> THEN tasks
                ELSE [tasks EXCEPT ![Len(tasks)] = CancelTask(tasks[Len(tasks)])]
    /\ UNCHANGED <<interrupted, on_chunk_callback, overruns, starters, sink, handed>>

\* AudioBuffer.interrupt()
AudioBuffer_interrupt ==
    /\ interrupted' = TRUE
    /\ buffer_is_playing' = FALSE
    /\ buffer' = <<>>
    /\ total_buffered_bytes' = 0
    /\ cleared' = cleared \cup Ids(buffer)
    /\ tasks' = IF tasks = <<>> THEN tasks
                ELSE [tasks EXCEPT ![Len(tasks)] = CancelTask(tasks[Len(tasks)])]
    /\ UNCHANGED <<on_chunk_callback, overruns, starters, sink, handed>>

\* AudioBuffer.reset()
reset ==
    /\ buffer' = <<>>
    /\ total_buffered_bytes' = 0
    /\ interrupted' = FALSE
    /\ buffer_is_playing' = FALSE
    /\ cleared' = cleared \cup Ids(buffer)
    /\ UNCHANGED <<on_chunk_callback, overruns, tasks, starters, sink, handed>>

(***************************************************************************)
(* AudioPlaybackController                                                 *)
(***************************************************************************)
\* AudioPlaybackController.play(playback_id, on_audio)
play ==
    /\ controller_is_playing' = TRUE
    /\ start_playback
    /\ UNCHANGED <<buffer, total_buffered_bytes, overruns>>

\* AudioPlaybackController.interrupt()
AudioPlaybackController_interrupt ==
    IF ~controller_is_playing
    THEN UNCHANGED <<controller_is_playing, bufferVars, sink, handed, cleared>>
    ELSE /\ AudioBuffer_interrupt
         /\ controller_is_playing' = FALSE

(***************************************************************************)
(* SpeechQueue                                                             *)
(***************************************************************************)
\* SpeechQueue.add without the sort: plain first in, first out
SpeechQueue_add_unsorted(priority) ==
    /\ speech_queue' = Append(speech_queue, [id |-> next_speech_id, priority |-> priority])
    /\ next_speech_id' = next_speech_id + 1
    /\ UNCHANGED current_speech_id

\* SpeechQueue.add(text, priority)
SpeechQueue_add(priority) ==
    /\ speech_queue' = SortByPriority(
           Append(speech_queue, [id |-> next_speech_id, priority |-> priority]))
    /\ next_speech_id' = next_speech_id + 1
    /\ UNCHANGED current_speech_id

\* SpeechQueue.get_next()
SpeechQueue_get_next ==
    IF speech_queue # <<>>
    THEN /\ current_speech_id' = Head(speech_queue).id
         /\ speech_queue' = Tail(speech_queue)
         /\ UNCHANGED next_speech_id
    ELSE UNCHANGED queueVars

\* SpeechQueue.clear()
SpeechQueue_clear ==
    /\ speech_queue' = <<>>
    /\ UNCHANGED <<next_speech_id, current_speech_id>>

(***************************************************************************)
(* InterruptionHandler                                                     *)
(***************************************************************************)
\* InterruptionHandler._transition_state(new_state); no callback is set
\* after construction.
transition_state(new_state) == state' = new_state

\* _handle_barge_in as it would be if it left the pending speech queued
handle_barge_in_keeps_queue ==
    /\ AudioPlaybackController_interrupt
    /\ UNCHANGED queueVars
    /\ transition_state("interrupted")

\* InterruptionHandler._handle_barge_in()
handle_barge_in ==
    /\ AudioPlaybackController_interrupt
    /\ SpeechQueue_clear
    /\ transition_state("interrupted")

\* the debounce test of on_speech_started
Debounced ==
    /\ last_vad_event_time # NoTime /\ last_vad_event_time # 0
    /\ (now - last_vad_event_time) < debounce_ms

\* the body of InterruptionHandler.on_speech_started(): what it does to the
\* handler, the queue, the controller and the buffer
HandlerSpeechStarted ==
    /\ delivered_speaking' = (enabled /\ state = "speaking")
    /\ IF ~enabled \/ Debounced
       THEN UNCHANGED <<handlerVars, queueVars, controller_is_playing, bufferVars, obsVars>>
       ELSE /\ last_vad_event_time' = now
            /\ speech_start_time' = now
            /\ UNCHANGED false_positives
            /\ IF state = "speaking"
               THEN /\ handle_barge_in
                    /\ barged_interval' = TRUE
               ELSE /\ barged_interval' = FALSE
                    /\ UNCHANGED <<state, queueVars, controller_is_playing,
                                   bufferVars, sink, handed, cleared>>

\* InterruptionHandler.on_speech_started()
on_speech_started ==
    /\ HandlerSpeechStarted
    /\ UNCHANGED now
    /\ UNCHANGED <<orchVars, sideVars>>

\* the body of InterruptionHandler.on_speech_ended()
HandlerSpeechEnded ==
    /\ delivered_speaking' = FALSE
    /\ IF ~enabled
       THEN UNCHANGED <<false_positives, speech_start_time, barged_interval>>
       ELSE /\ false_positives' =
                 IF /\ speech_start_time # NoTime /\ speech_start_time # 0
                    /\ require_confident_speech
                    /\ (now - speech_start_time) < min_speech_duration_ms
                 THEN false_positives + 1
                 ELSE false_positives
            /\ speech_start_time' = NoTime
            /\ barged_interval' = FALSE
    /\ UNCHANGED <<state, last_vad_event_time, queueVars, controller_is_playing,
                   bufferVars, sink, handed, cleared>>

\* InterruptionHandler.on_speech_ended()
on_speech_ended ==
    /\ HandlerSpeechEnded
    /\ UNCHANGED now
    /\ UNCHANGED <<orchVars, sideVars>>

\* InterruptionHandler.start_listening()
start_listening ==
    /\ delivered_speaking' = FALSE
    /\ transition_state("listening")
    /\ UNCHANGED <<now, last_vad_event_time, speech_start_time, false_positives,
                   queueVars, controller_is_playing, bufferVars, obsVars>>
    /\ UNCHANGED <<orchVars, sideVars>>

\* InterruptionHandler.start_processing()
start_processing ==
    /\ delivered_speaking' = FALSE
    /\ transition_state("processing")
    /\ UNCHANGED <<now, last_vad_event_time, speech_start_time, false_positives,
                   queueVars, controller_is_playing, bufferVars, obsVars>>
    /\ UNCHANGED <<orchVars, sideVars>>

\* InterruptionHandler.start_speaking()
start_speaking ==
    /\ delivered_speaking' = FALSE
    /\ transition_state("speaking")
    /\ UNCHANGED <<now, last_vad_event_time, speech_start_time, false_positives,
                   queueVars, controller_is_playing, bufferVars, obsVars>>
    /\ UNCHANGED <<orchVars, sideVars>>

\* InterruptionHandler.queue_speech(text, priority)
queue_speech(priority) ==
    /\ next_speech_id < MaxSpeech
    /\ delivered_speaking' = FALSE
    /\ SpeechQueue_add(priority)
    /\ UNCHANGED <<now, handlerVars, controller_is_playing, bufferVars, obsVars>>
    /\ UNCHANGED <<orchVars, sideVars>>

\* InterruptionHandler.get_next_speech()
get_next_speech ==
    /\ delivered_speaking' = FALSE
    /\ SpeechQueue_get_next
    /\ UNCHANGED <<now, handlerVars, controller_is_playing, bufferVars, obsVars>>
    /\ UNCHANGED <<orchVars, sideVars>>

(***************************************************************************)
(* The callers of the buffer and of the controller                         *)
(***************************************************************************)
AddAudio(n) ==
    /\ handed < MaxChunks
    /\ add_audio(n)
    /\ UNCHANGED <<now, handlerVars, queueVars, controller_is_playing,
                   barged_interval, delivered_speaking>>
    /\ UNCHANGED <<orchVars, sideVars>>

FeedAudio(n) ==
    /\ handed < MaxFrames
    /\ add_audio(n)
    /\ delivered_speaking' = FALSE
    /\ UNCHANGED <<now, handlerVars, queueVars, controller_is_playing, barged_interval>>
    /\ UNCHANGED <<orchVars, sideVars>>

Play ==
    /\ Len(tasks) + starters < MaxTasks
    /\ play
    /\ delivered_speaking' = FALSE
    /\ UNCHANGED <<now, handlerVars, queueVars, obsVars>>
    /\ UNCHANGED <<orchVars, sideVars>>

Interrupt ==
    /\ AudioPlaybackController_interrupt
    /\ delivered_speaking' = FALSE
    /\ UNCHANGED <<now, handlerVars, queueVars, barged_interval>>
    /\ UNCHANGED <<orchVars, sideVars>>

Reset ==
    /\ reset
    /\ UNCHANGED <<now, handlerVars, queueVars, controller_is_playing,
                   barged_interval, delivered_speaking>>
    /\ UNCHANGED <<orchVars, sideVars>>

\* the wall clock advances
Tick(d) ==
    /\ now + d <= MaxTime
    /\ now' = now + d
    /\ delivered_speaking' = FALSE
    /\ UNCHANGED <<handlerVars, queueVars, controller_is_playing, bufferVars, obsVars>>
    /\ UNCHANGED <<orchVars, sideVars>>

\* the steps asyncio takes by itself: tasks and sleeping coroutines resume
PlaybackStep ==
    /\ \E i \in 1..Len(tasks) : PlaybackLoop(i)
    /\ delivered_speaking' = FALSE
    /\ UNCHANGED <<orchVars, sideVars>>

PlaybackCancelStep ==
    /\ \E i \in 1..Len(tasks) : PlaybackCancelled(i)
    /\ delivered_speaking' = FALSE
    /\ UNCHANGED <<orchVars, sideVars>>

JitterStep ==
    /\ \E timeout \in BOOLEAN : JitterWake(timeout)
    /\ delivered_speaking' = FALSE
    /\ UNCHANGED <<orchVars, sideVars>>

Internal == PlaybackStep \/ PlaybackCancelStep \/ JitterStep

(***************************************************************************)
(* Spec: the InterruptionHandler with its queue, controller and buffer.    *)
(***************************************************************************)
Next ==
    \/ on_speech_started
    \/ on_speech_ended
    \/ start_listening
    \/ start_processing
    \/ start_speaking
    \/ \E p \in Priorities : queue_speech(p)
    \/ get_next_speech
    \/ \E n \in AudioSizes : FeedAudio(n)
    \/ Play
    \/ Interrupt
    \/ \E d \in Delta : Tick(d)
    \/ PlaybackStep
    \/ PlaybackCancelStep
    \/ JitterStep

Spec == Init /\ [][Next]_vars

\* asyncio runs every ready task and wakes every sleeper; callers of the
\* public operations are under no obligation.
FairSpec == Spec /\ WF_vars(Internal)

(***************************************************************************)
(* SpecBuffer: the AudioBuffer driven through the controller.              *)
(***************************************************************************)
NextBuffer ==
    \/ \E n \in AudioSizes : AddAudio(n)
    \/ Play
    \/ Interrupt
    \/ Reset
    \/ PlaybackStep
    \/ PlaybackCancelStep
    \/ JitterStep

SpecBuffer == Init /\ [][NextBuffer]_vars

(***************************************************************************)
(* StreamingOrchestrator (lib/streaming_orchestrator.py)                   *)
(*                                                                         *)
(* Strings are sequences of characters.  A run is one call of              *)
(* process_transcript; its record holds the locals of the coroutine and    *)
(* of its playback task:                                                   *)
(*   call, rid        call_id and request_id                               *)
(*   pc               where the coroutine is suspended                     *)
(*   response_tokens  the list of that name                                *)
(*   coord, flushed   StreamCoordinator.buffer and .flushed                *)
(*   tts_text         the chunks passed to tts_ws.send_text                *)
(*   tts_open         the TTS websocket is connected and not closed        *)
(*   made             audio frames the TTS side has produced               *)
(*   audio_queue      the asyncio.Queue; 0 stands for the None sentinel    *)
(*   pump             the playback task: "none", "running", "done"         *)
(*   failed           an exception is propagating out of the LLM loop      *)
(*   response_text    result["response_text"] once pc = "returned"         *)
(* and three history fields:                                               *)
(*   produced         every token the LLM client yielded, in order         *)
(*   played           the frames passed to on_audio, in order              *)
(*   after_barge      the run began after a barge-in of the handler        *)
(***************************************************************************)
Whitespace == {" "}

RECURSIVE Join(_)
\* "".join(list)
Join(list) == IF list = <<>> THEN <<>> ELSE Head(list) \o Join(Tail(list))

RECURSIVE rstrip(_)
\* str.rstrip()
rstrip(text) ==
    IF text # <<>> /\ text[Len(text)] \in Whitespace
    THEN rstrip(SubSeq(text, 1, Len(text) - 1))
    ELSE text

\* str.endswith(tuple of one-character strings)
endswith(text, chars) == text # <<>> /\ text[Len(text)] \in chars

DigitChars == <<"0", "1", "2", "3", "4", "5", "6", "7", "8", "9">>

RECURSIVE str(_)
\* str(n) for an int n >= 0
str(n) == IF n < 10 THEN <<DigitChars[n + 1]>>
          ELSE str(n \div 10) \o <<DigitChars[(n % 10) + 1]>>

\* f"{call_id}_{int(time.time() * 1000)}"
RequestId(call_id, t) == call_id \o <<"_">> \o str(t)

\* add_token as the rule is worded: the break characters are looked for at
\* the very end of the text
add_token_sized_no_rstrip(coord, token, size) ==
    LET appended     == Append(coord, token)
        current_text == Join(appended)
        send == \/ Len(current_text) >= size
                \/ endswith(current_text, {".", "!", "?"})
                \/ (Len(current_text) > clause_min_len
                                     /\ endswith(current_text, {","}))
    IN  IF send THEN [buffer |-> <<>>, chunk |-> current_text]
                ELSE [buffer |-> appended, chunk |-> <<>>]

\* StreamCoordinator.add_token(token): the new buffer and the returned chunk
\* (<<>> stands for a return value that "if chunk:" takes as false)
add_token_sized(coord, token, size) ==
    LET appended     == Append(coord, token)
        current_text == Join(appended)
        send == \/ Len(current_text) >= size
                \/ endswith(rstrip(current_text), {".", "!", "?"})
                \/ (Len(current_text) > clause_min_len
                                     /\ endswith(rstrip(current_text), {","}))
    IN  IF send THEN [buffer |-> <<>>, chunk |-> current_text]
                ELSE [buffer |-> appended, chunk |-> <<>>]

\* add_token of the coordinator that _streaming_pipeline builds with
\* chunk_size = self.stream_chunk_size
add_token(coord, token) == add_token_sized(coord, token, stream_chunk_size)

\* flush() as it would be if it emptied the buffer and returned nothing
flush_discarding(coord, was_flushed) ==
    IF coord # <<>> /\ ~was_flushed
    THEN [buffer |-> <<>>, flushed |-> TRUE, chunk |-> <<>>]
    ELSE [buffer |-> coord, flushed |-> was_flushed, chunk |-> <<>>]

\* StreamCoordinator.flush(): new buffer, new flushed, returned chunk
flush(coord, was_flushed) ==
    IF coord # <<>> /\ ~was_flushed
    THEN [buffer |-> <<>>, flushed |-> TRUE, chunk |-> Join(coord)]
    ELSE [buffer |-> coord, flushed |-> was_flushed, chunk |-> <<>>]

InProgress(r) == runs[r].pc \notin {"returned", "raised"}

\* process_transcript(call_id, ...), up to its first suspension
process_transcript(call_id) ==
    LET rid == RequestId(call_id, now) IN
    /\ Len(runs) < MaxRuns
    /\ start_times' = start_times \cup {rid}
    /\ active_pipelines' = active_pipelines \cup {rid}
    /\ runs' = Append(runs,
          [call |-> call_id, rid |-> rid,
           pc |-> IF streaming_cfg THEN "connect" ELSE "seq_llm",
           response_tokens |-> <<>>, coord |-> <<>>, flushed |-> FALSE,
           tts_text |-> <<>>, tts_open |-> FALSE, made |-> 0,
           audio_queue |-> <<>>, pump |-> "none", failed |-> FALSE,
           response_text |-> <<>>,
           produced |-> <<>>, played |-> <<>>, after_barge |-> barged_interval])
    /\ UNCHANGED <<streaming_cfg, coreVars, sideVars>>

\* the result text as it would be if only the first token were kept
response_text_of_first(response_tokens) ==
    IF response_tokens = <<>> THEN <<>> ELSE Head(response_tokens)

\* _streaming_pipeline, line 398: "".join(response_tokens)
response_text_of(response_tokens) == Join(response_tokens)

\* the finally of process_transcript
pop_active(rid) == active_pipelines' = active_pipelines \ {rid}

\* LatencyTracker.complete(request_id)
complete(rid) == start_times' = start_times \ {rid}

\* _streaming_pipeline: generate_websocket() and connect() return or raise
TtsConnect(r, ok) ==
    /\ r \in 1..Len(runs) /\ runs[r].pc = "connect"
    /\ IF ok
       THEN /\ runs' = [runs EXCEPT ![r].tts_open = TRUE, ![r].pump = "running",
                                    ![r].pc = "llm"]
            /\ UNCHANGED active_pipelines
       ELSE /\ runs' = [runs EXCEPT ![r].pc = "raised"]
            /\ pop_active(runs[r].rid)
    /\ UNCHANGED <<streaming_cfg, start_times, coreVars, sideVars>>

\* _streaming_pipeline: one iteration of "async for token in generate_stream"
LlmToken(r, token) ==
    /\ r \in 1..Len(runs) /\ runs[r].pc = "llm"
    /\ Len(runs[r].produced) < MaxTokens
    /\ LET c == add_token(runs[r].coord, token) IN
       runs' = [runs EXCEPT
                  ![r].produced = Append(@, token),
                  ![r].response_tokens = Append(@, token),
                  ![r].coord = c.buffer,
                  ![r].tts_text = IF c.chunk # <<>> THEN Append(@, c.chunk) ELSE @]
    /\ UNCHANGED <<streaming_cfg, active_pipelines, start_times, coreVars, sideVars>>

\* _streaming_pipeline: the token stream ends; the coordinator is flushed
LlmEnd(r) ==
    /\ r \in 1..Len(runs) /\ runs[r].pc = "llm"
    /\ LET f == flush(runs[r].coord, runs[r].flushed) IN
       runs' = [runs EXCEPT
                  ![r].coord = f.buffer,
                  ![r].flushed = f.flushed,
                  ![r].tts_text = IF f.chunk # <<>> THEN Append(@, f.chunk) ELSE @,
                  ![r].pc = "closing"]
    /\ UNCHANGED <<streaming_cfg, active_pipelines, start_times, coreVars, sideVars>>

\* _streaming_pipeline: generate_stream raises (its retries are exhausted)
LlmFail(r) ==
    /\ r \in 1..Len(runs) /\ runs[r].pc = "llm"
    /\ runs' = [runs EXCEPT ![r].failed = TRUE, ![r].pc = "closing"]
    /\ UNCHANGED <<streaming_cfg, active_pipelines, start_times, coreVars, sideVars>>

\* _streaming_pipeline, finally: sleep(0.5) is over, tts_ws.close()
CloseTts(r) ==
    /\ r \in 1..Len(runs) /\ runs[r].pc = "closing"
    /\ runs' = [runs EXCEPT ![r].tts_open = FALSE, ![r].pc = "put_none"]
    /\ UNCHANGED <<streaming_cfg, active_pipelines, start_times, coreVars, sideVars>>

\* _streaming_pipeline, finally: audio_queue.put(None) finds room
PutNone(r) ==
    /\ r \in 1..Len(runs) /\ runs[r].pc = "put_none"
    /\ Len(runs[r].audio_queue) < queue_maxsize
    /\ runs' = [runs EXCEPT ![r].audio_queue = Append(@, 0), ![r].pc = "draining"]
    /\ UNCHANGED <<streaming_cfg, active_pipelines, start_times, coreVars, sideVars>>

\* audio_callback(audio_chunk): the TTS side delivers a frame for text it
\* got, having delivered fewer than limit frames so far
audio_callback_within(r, limit) ==
    /\ r \in 1..Len(runs) /\ runs[r].tts_open /\ runs[r].tts_text # <<>>
    /\ runs[r].made < limit
    /\ Len(runs[r].audio_queue) < queue_maxsize
    /\ runs' = [runs EXCEPT ![r].made = @ + 1,
                            ![r].audio_queue = Append(@, runs[r].made + 1)]
    /\ UNCHANGED <<streaming_cfg, active_pipelines, start_times, coreVars, sideVars>>

audio_callback(r) == audio_callback_within(r, MaxAudio)

\* playback_loop: audio_queue.get() returns; on_audio returns or raises
playback_loop(r, ok) ==
    /\ r \in 1..Len(runs) /\ runs[r].pump = "running"
    /\ runs[r].audio_queue # <<>>
    /\ LET audio_chunk == Head(runs[r].audio_queue) IN
       runs' = [runs EXCEPT
                  ![r].audio_queue = Tail(@),
                  ![r].played = IF audio_chunk # 0 /\ ok THEN Append(@, audio_chunk) ELSE @,
                  ![r].pump = IF audio_chunk = 0 \/ ~ok THEN "done" ELSE @]
    /\ UNCHANGED <<streaming_cfg, active_pipelines, start_times, coreVars, sideVars>>

\* playback_loop: wait_for(audio_queue.get(), 5.0) times out
playback_timeout(r) ==
    /\ r \in 1..Len(runs) /\ runs[r].pump = "running"
    /\ runs[r].audio_queue = <<>>
    /\ runs' = [runs EXCEPT ![r].pump =
                   IF runs[r].rid \notin active_pipelines THEN "done" ELSE @]
    /\ UNCHANGED <<streaming_cfg, active_pipelines, start_times, coreVars, sideVars>>

\* _streaming_pipeline after "await playback_task", then the tail of
\* process_transcript: return the result or let the exception out
Finish(r) ==
    /\ r \in 1..Len(runs) /\ runs[r].pc = "draining" /\ runs[r].pump = "done"
    /\ IF runs[r].failed
       THEN /\ runs' = [runs EXCEPT ![r].pc = "raised"]
            /\ UNCHANGED start_times
       ELSE /\ runs' = [runs EXCEPT
                          ![r].response_text = response_text_of(runs[r].response_tokens),
                          ![r].pc = "returned"]
            /\ complete(runs[r].rid)
    /\ pop_active(runs[r].rid)
    /\ UNCHANGED <<streaming_cfg, coreVars, sideVars>>

\* _sequential_pipeline: llm_client.generate returns the whole text
SeqLlm(r, text) ==
    /\ r \in 1..Len(runs) /\ runs[r].pc = "seq_llm"
    /\ runs' = [runs EXCEPT ![r].produced = <<text>>, ![r].response_text = text,
                            ![r].pc = "seq_tts"]
    /\ UNCHANGED <<streaming_cfg, active_pipelines, start_times, coreVars, sideVars>>

\* _sequential_pipeline: tts_client.generate returns the whole audio
SeqTts(r) ==
    /\ r \in 1..Len(runs) /\ runs[r].pc = "seq_tts"
    /\ runs' = [runs EXCEPT ![r].made = 1, ![r].pc = "seq_play"]
    /\ UNCHANGED <<streaming_cfg, active_pipelines, start_times, coreVars, sideVars>>

\* _sequential_pipeline: on_audio(audio_data) returns or raises, then the
\* tail of process_transcript
SeqPlay(r, ok) ==
    /\ r \in 1..Len(runs) /\ runs[r].pc = "seq_play"
    /\ runs' = [runs EXCEPT ![r].played = Append(@, 1),
                            ![r].pc = IF ok THEN "returned" ELSE "raised"]
    /\ IF ok THEN complete(runs[r].rid) ELSE UNCHANGED start_times
    /\ pop_active(runs[r].rid)
    /\ UNCHANGED <<streaming_cfg, coreVars, sideVars>>

\* _sequential_pipeline: the LLM or the TTS call raises
SeqFail(r) ==
    /\ r \in 1..Len(runs) /\ runs[r].pc \in {"seq_llm", "seq_tts"}
    /\ runs' = [runs EXCEPT ![r].pc = "raised"]
    /\ pop_active(runs[r].rid)
    /\ UNCHANGED <<streaming_cfg, start_times, coreVars, sideVars>>

(***************************************************************************)
(* SpecOrch: concurrent process_transcript calls on one orchestrator.      *)
(***************************************************************************)
RunIds == 1..MaxRuns

NextOrch ==
    \/ \E c \in CallIds : process_transcript(c)
    \/ \E r \in RunIds, ok \in BOOLEAN : TtsConnect(r, ok)
    \/ \E r \in RunIds, token \in TokenSet : LlmToken(r, token)
    \/ \E r \in RunIds : LlmEnd(r)
    \/ \E r \in RunIds : LlmFail(r)
    \/ \E r \in RunIds : CloseTts(r)
    \/ \E r \in RunIds : PutNone(r)
    \/ \E r \in RunIds : audio_callback(r)
    \/ \E r \in RunIds, ok \in BOOLEAN : playback_loop(r, ok)
    \/ \E r \in RunIds : playback_timeout(r)
    \/ \E r \in RunIds : Finish(r)
    \/ \E r \in RunIds, text \in TokenSet : SeqLlm(r, text)
    \/ \E r \in RunIds : SeqTts(r)
    \/ \E r \in RunIds, ok \in BOOLEAN : SeqPlay(r, ok)
    \/ \E r \in RunIds : SeqFail(r)
    \/ \E d \in Delta : Tick(d)

SpecOrch == Init /\ [][NextOrch]_vars

(***************************************************************************)
(* SpecBarge: one process_transcript call next to an InterruptionHandler   *)
(* that is told when the agent speaks and when the caller starts to speak. *)
(***************************************************************************)
\* the first final transcript of the call
first_transcript(call_id) == runs = <<>> /\ process_transcript(call_id)

NextBarge ==
    \/ \E c \in CallIds : first_transcript(c)
    \/ \E ok \in BOOLEAN : TtsConnect(1, ok)
    \/ \E token \in TokenSet : LlmToken(1, token)
    \/ LlmEnd(1)
    \/ LlmFail(1)
    \/ CloseTts(1)
    \/ PutNone(1)
    \/ audio_callback(1)
    \/ \E ok \in BOOLEAN : playback_loop(1, ok)
    \/ playback_timeout(1)
    \/ Finish(1)
    \/ \E text \in TokenSet : SeqLlm(1, text)
    \/ SeqTts(1)
    \/ \E ok \in BOOLEAN : SeqPlay(1, ok)
    \/ SeqFail(1)
    \/ start_speaking
    \/ on_speech_started

SpecBarge == Init /\ [][NextBarge]_vars

(***************************************************************************)
(* api_server.py: the registry active_calls, the actions start_call and    *)
(* hangup, and the carrier's webhooks.  A request record holds             *)
(*   kind     "start_call" or "hangup"                                     *)
(*   call     the call id ("" while start_call does not know it)           *)
(*   pc       "await_provider" while the handler is suspended in the       *)
(*            provider call, then "done"                                   *)
(*   status   the HTTP status of the response (0: none yet)                *)
(*   repeat   history: the call had been removed when the request arrived  *)
(*   error    the exception the except branch caught, "none" if none        *)
(***************************************************************************)
Request(kind, call, pc, status) ==
    [kind |-> kind, call |-> call, pc |-> pc, status |-> status,
     repeat |-> call \in removed, error |-> "none"]

\* call ids the provider has given to start_call requests
Dialled == {reqs[i].call : i \in {j \in 1..Len(reqs) : reqs[j].kind = "start_call"}}

\* action_start_call, up to provider.start_outbound_call
action_start_call ==
    /\ Len(reqs) < MaxReqs
    /\ reqs' = Append(reqs,
          IF Cardinality(active_calls) >= max_concurrent
          THEN Request("start_call", "", "done", 429)
          ELSE Request("start_call", "", "await_provider", 0))
    /\ UNCHANGED <<active_calls, removed, notApiVars>>

\* action_start_call: provider.start_outbound_call returns call_id
StartCallReturn(r, call_id) ==
    /\ r \in 1..Len(reqs)
    /\ reqs[r].kind = "start_call" /\ reqs[r].pc = "await_provider"
    /\ call_id \notin (active_calls \cup removed \cup Dialled)
    /\ active_calls' = active_calls \cup {call_id}
    /\ reqs' = [reqs EXCEPT ![r].call = call_id, ![r].pc = "done", ![r].status = 200]
    /\ UNCHANGED <<removed, notApiVars>>

\* action_start_call: provider.start_outbound_call raises
StartCallFail(r) ==
    /\ r \in 1..Len(reqs)
    /\ reqs[r].kind = "start_call" /\ reqs[r].pc = "await_provider"
    /\ reqs' = [reqs EXCEPT ![r].pc = "done", ![r].status = 500]
    /\ UNCHANGED <<active_calls, removed, notApiVars>>

\* action_hangup, up to provider.hangup_call
action_hangup(call_id) ==
    /\ Len(reqs) < MaxReqs
    /\ reqs' = Append(reqs,
          IF call_id \notin active_calls
          THEN Request("hangup", call_id, "done", 404)
          ELSE Request("hangup", call_id, "await_provider", 0))
    /\ UNCHANGED <<active_calls, removed, notApiVars>>

\* action_hangup after provider.hangup_call: it raised (ok = FALSE), or the
\* entry is gone (KeyError at active_calls[call_id]), or the cleanup runs and
\* "time.time() - start_time" subtracts a datetime from a float (TypeError);
\* each ends in the except branch, which answers 500.
HangupReturn(r, ok) ==
    /\ r \in 1..Len(reqs)
    /\ reqs[r].kind = "hangup" /\ reqs[r].pc = "await_provider"
    /\ IF ok /\ reqs[r].call \in active_calls
       THEN /\ active_calls' = active_calls \ {reqs[r].call}
            /\ removed' = removed \cup {reqs[r].call}
       ELSE UNCHANGED <<active_calls, removed>>
    /\ reqs' = [reqs EXCEPT ![r].pc = "done", ![r].status = 500,
                            ![r].error = IF ~ok THEN "provider"
                                         ELSE IF reqs[r].call \notin active_calls
                                              THEN "KeyError"
                                              ELSE "TypeError"]
    /\ UNCHANGED notApiVars

\* telnyx_webhook, event call.initiated
WebhookInitiated(call_id) ==
    /\ call_id \notin removed
    /\ active_calls' = active_calls \cup {call_id}
    /\ UNCHANGED <<reqs, removed, notApiVars>>

\* telnyx_webhook, event call.hangup
WebhookHangup(call_id) ==
    /\ IF call_id \in active_calls
       THEN /\ active_calls' = active_calls \ {call_id}
            /\ removed' = removed \cup {call_id}
       ELSE UNCHANGED <<active_calls, removed>>
    /\ UNCHANGED <<reqs, notApiVars>>

(***************************************************************************)
(* SpecApi: concurrent API requests and webhooks on one api_server.        *)
(***************************************************************************)
NextApi ==
    \/ action_start_call
    \/ \E r \in 1..MaxReqs, c \in CallControlIds : StartCallReturn(r, c)
    \/ \E r \in 1..MaxReqs : StartCallFail(r)
    \/ \E c \in CallControlIds : action_hangup(c)
    \/ \E r \in 1..MaxReqs, ok \in BOOLEAN : HangupReturn(r, ok)
    \/ \E c \in CallControlIds : WebhookInitiated(c)
    \/ \E c \in CallControlIds : WebhookHangup(c)

SpecApi == Init /\ [][NextApi]_vars

(***************************************************************************)
(* lib/audio_pipeline.py: AudioPipeline and the PipelineInstance of one    *)
(* call.  The three loops of the instance run as the coroutines that       *)
(* PipelineInstance.start gathers; each *_pc names the await at which the  *)
(* loop is suspended ("none" before start, "done" once it has returned).   *)
(***************************************************************************)
\* the top of "while self.running:" followed by the first await of the body
LoopTop(await_pc) == IF running THEN await_pc ELSE "done"

\* AudioPipeline.start_pipeline(call_id, audio_stream), up to the first
\* suspension of the gathered loops; a second call raises ValueError
start_pipeline ==
    /\ ~pl_started
    /\ pipelines' = pipelines \cup {PipeCall}
    /\ pl_started' = TRUE
    /\ running' = TRUE
    /\ audio_pc' = "get_chunk"
    /\ filler_pc' = "get"
    /\ monitor_pc' = "sleep"
    /\ UNCHANGED <<filler_queue, start_done, llm_inputs, notPipeVars>>

\* the body of AudioPipeline.stop_pipeline(call_id), with PipelineInstance.stop()
stop_pipeline_body ==
    /\ IF PipeCall \in pipelines
       THEN /\ running' = FALSE
            /\ pipelines' = pipelines \ {PipeCall}
       ELSE \* raise ValueError("No pipeline found ...")
            UNCHANGED <<running, pipelines>>
    /\ UNCHANGED <<pl_started, audio_pc, filler_pc, monitor_pc, filler_queue,
                   start_done, llm_inputs>>

\* AudioPipeline.stop_pipeline(call_id) called on its own
stop_pipeline ==
    /\ stop_pipeline_body
    /\ UNCHANGED notPipeVars

\* AudioPipeline.inject_filler_word(call_id, word)
inject_filler_word(word) ==
    /\ PipeCall \in pipelines
    /\ Len(filler_queue) < MaxFiller
    /\ filler_queue' = Append(filler_queue, word)
    /\ UNCHANGED <<pipelines, pl_started, running, audio_pc, filler_pc, monitor_pc,
                   start_done, llm_inputs, notPipeVars>>

\* _process_audio: audio_stream.get_chunk() returns a chunk or nothing
AudioChunk(present) ==
    /\ audio_pc = "get_chunk"
    /\ audio_pc' = IF present THEN "stt" ELSE LoopTop("get_chunk")
    /\ UNCHANGED <<pipelines, pl_started, running, filler_pc, monitor_pc,
                   filler_queue, start_done, llm_inputs, notPipeVars>>

\* _process_audio: stt_client.transcribe returns a result, which is handed
\* to llm_client.generate_response as it is
SttResult(is_final) ==
    /\ audio_pc = "stt"
    /\ llm_inputs' = llm_inputs \cup {is_final}
    /\ audio_pc' = "llm"
    /\ UNCHANGED <<pipelines, pl_started, running, filler_pc, monitor_pc,
                   filler_queue, start_done, notPipeVars>>

\* _process_audio: generate_response returns; synthesize is awaited
LlmResponse ==
    /\ audio_pc = "llm"
    /\ audio_pc' = "tts"
    /\ UNCHANGED <<pipelines, pl_started, running, filler_pc, monitor_pc,
                   filler_queue, start_done, llm_inputs, notPipeVars>>

\* _process_audio: synthesize returns; the audio is sent, the loop goes round
TtsAudio ==
    /\ audio_pc = "tts"
    /\ audio_pc' = LoopTop("get_chunk")
    /\ UNCHANGED <<pipelines, pl_started, running, filler_pc, monitor_pc,
                   filler_queue, start_done, llm_inputs, notPipeVars>>

\* _process_audio: an await of the body raises; the except prints and the
\* loop goes round
AudioError ==
    /\ audio_pc \in {"get_chunk", "stt", "llm", "tts"}
    /\ audio_pc' = LoopTop("get_chunk")
    /\ UNCHANGED <<pipelines, pl_started, running, filler_pc, monitor_pc,
                   filler_queue, start_done, llm_inputs, notPipeVars>>

\* _process_filler_words: filler_queue.get() returns a word
FillerGet ==
    /\ filler_pc = "get"
    /\ filler_queue # <<>>
    /\ filler_queue' = Tail(filler_queue)
    /\ filler_pc' = IF Head(filler_queue) = "" THEN LoopTop("get") ELSE "tts"
    /\ UNCHANGED <<pipelines, pl_started, running, audio_pc, monitor_pc,
                   start_done, llm_inputs, notPipeVars>>

\* _process_filler_words: synthesize returns or raises; the loop goes round
FillerTts ==
    /\ filler_pc = "tts"
    /\ filler_pc' = LoopTop("get")
    /\ UNCHANGED <<pipelines, pl_started, running, audio_pc, monitor_pc,
                   filler_queue, start_done, llm_inputs, notPipeVars>>

\* _monitor_pipeline: asyncio.sleep(10) returns
MonitorWake ==
    /\ monitor_pc = "sleep"
    /\ monitor_pc' = LoopTop("sleep")
    /\ UNCHANGED <<pipelines, pl_started, running, audio_pc, filler_pc,
                   filler_queue, start_done, llm_inputs, notPipeVars>>

\* PipelineInstance.start: asyncio.gather returns once the three loops have
StartReturns ==
    /\ ~start_done
    /\ audio_pc = "done" /\ filler_pc = "done" /\ monitor_pc = "done"
    /\ start_done' = TRUE
    /\ UNCHANGED <<pipelines, pl_started, running, audio_pc, filler_pc, monitor_pc,
                   filler_queue, llm_inputs, notPipeVars>>

(***************************************************************************)
(* SpecPipe: one call's pipeline.  FairSpecPipe: every step that asyncio,  *)
(* the audio stream, STT, LLM and TTS take is eventually taken; the        *)
(* callers of start_pipeline, stop_pipeline and inject_filler_word are     *)
(* under no obligation.                                                    *)
(***************************************************************************)
PipeInternal ==
    \/ \E present \in BOOLEAN : AudioChunk(present)
    \/ \E is_final \in BOOLEAN : SttResult(is_final)
    \/ LlmResponse
    \/ TtsAudio
    \/ FillerGet
    \/ FillerTts
    \/ MonitorWake
    \/ StartReturns

NextPipe ==
    \/ start_pipeline
    \/ stop_pipeline
    \/ \E word \in FillerWords : inject_filler_word(word)
    \/ \E present \in BOOLEAN : AudioChunk(present)
    \/ \E is_final \in BOOLEAN : SttResult(is_final)
    \/ LlmResponse
    \/ TtsAudio
    \/ AudioError
    \/ FillerGet
    \/ FillerTts
    \/ MonitorWake
    \/ StartReturns

SpecPipe == Init /\ [][NextPipe]_vars

FairSpecPipe == SpecPipe /\ WF_vars(PipeInternal)

(***************************************************************************)
(* websocket_server.py: the MediaStreamHandler of one session.  A call of  *)
(* speak is a record of speaks; its pc names the await at which it is      *)
(* suspended: "stream" (the next chunk of synthesize_stream), "outbound"   *)
(* (process_outbound_audio), then "done"; "skipped" when the session was   *)
(* not active.                                                             *)
(***************************************************************************)
SpeakIds == 1..Len(speaks)

\* speak(text), up to the first chunk being awaited
speak ==
    /\ Len(speaks) < MaxSpeaks
    /\ IF ~ms_active
       THEN /\ speaks' = Append(speaks, [pc |-> "skipped", chunks |-> 0, turns |-> 0])
            /\ UNCHANGED ms_is_speaking
       ELSE /\ ms_is_speaking' = TRUE
            /\ speaks' = Append(speaks, [pc |-> "stream", chunks |-> 0, turns |-> 0])
    /\ UNCHANGED <<ms_active, user_speaking, pipeVars, notMediaVars>>

\* speak: synthesize_stream yields a chunk; process_outbound_audio is awaited
SpeakChunk(i) ==
    /\ speaks[i].pc = "stream"
    /\ speaks[i].chunks < MaxTtsChunks
    /\ speaks' = [speaks EXCEPT ![i].pc = "outbound"]
    /\ UNCHANGED <<ms_active, ms_is_speaking, user_speaking, pipeVars, notMediaVars>>

\* speak: process_outbound_audio returns; the turn is added; the next chunk
\* is awaited
SpeakSent(i) ==
    /\ speaks[i].pc = "outbound"
    /\ speaks' = [speaks EXCEPT ![i].pc = "stream",
                                ![i].chunks = @ + 1,
                                ![i].turns = @ + 1]
    /\ UNCHANGED <<ms_active, ms_is_speaking, user_speaking, pipeVars, notMediaVars>>

\* speak: synthesize_stream is exhausted, or an await raises; the finally
\* clause runs
SpeakEnd(i) ==
    /\ speaks[i].pc \in {"stream", "outbound"}
    /\ speaks' = [speaks EXCEPT ![i].pc = "done"]
    /\ ms_is_speaking' = FALSE
    /\ UNCHANGED <<ms_active, user_speaking, pipeVars, notMediaVars>>

\* _on_speech_started, with _stop_speaking when the agent is speaking
MediaStreamHandler_on_speech_started ==
    /\ user_speaking' = TRUE
    /\ ms_is_speaking' = FALSE
    /\ UNCHANGED <<ms_active, speaks, pipeVars, notMediaVars>>

\* _on_speech_ended
MediaStreamHandler_on_speech_ended ==
    /\ user_speaking' = FALSE
    /\ UNCHANGED <<ms_active, ms_is_speaking, speaks, pipeVars, notMediaVars>>

\* stop
MediaStreamHandler_stop ==
    /\ ms_active' = FALSE
    /\ stop_pipeline_body
    /\ UNCHANGED <<ms_is_speaking, user_speaking, speaks, notMediaVars>>

NextMedia ==
    \/ speak
    \/ \E i \in SpeakIds : SpeakChunk(i)
    \/ \E i \in SpeakIds : SpeakSent(i)
    \/ \E i \in SpeakIds : SpeakEnd(i)
    \/ MediaStreamHandler_on_speech_started
    \/ MediaStreamHandler_on_speech_ended
    \/ MediaStreamHandler_stop

SpecMedia == Init /\ [][NextMedia]_vars

(***************************************************************************)
(* lib/conversation.py: the ConversationContext of one call.               *)
(***************************************************************************)
\* s[-n:]
LastN(s, n) == IF Len(s) <= n THEN s ELSE SubSeq(s, Len(s) - n + 1, Len(s))

\* add_turn with the trim keeping the oldest turns instead of the newest
add_turn_keeps_oldest(turn) ==
    /\ Len(added) < MaxTurns
    /\ LET appended == Append(turns, turn)
       IN  /\ turns' = IF Len(appended) > kept_turns
                       THEN SubSeq(appended, 1, kept_turns)
                       ELSE appended
           /\ turn_count' = Len(turns')
    /\ added' = Append(added, turn)
    /\ UNCHANGED notConvVars

\* ConversationContext.add_turn(speaker, text, confidence)
add_turn(turn) ==
    /\ Len(added) < MaxTurns
    /\ LET appended == Append(turns, turn)
       IN  /\ turns' = IF Len(appended) > kept_turns
                       THEN LastN(appended, kept_turns)
                       ELSE appended
           /\ turn_count' = Len(turns')
    /\ added' = Append(added, turn)
    /\ UNCHANGED notConvVars

NextConv == \E turn \in TurnSet : add_turn(turn)

SpecConv == Init /\ [][NextConv]_vars

(***************************************************************************)
(* lib/deepgram_client.py: one DeepgramSTT instance.  start_stream is an   *)
(* async generator; the running call is the last record of streams and     *)
(* stt_pc names its await: "connecting" (websockets.connect), "streaming"  *)
(* (the audio iterator, send, recv and the consumer of a yield), "backoff" *)
(* (asyncio.sleep).  "outcome" is how the generator ended: "returned" is   *)
(* the end of the iteration, "raised" an exception in the consumer.        *)
(***************************************************************************)
Cur == Len(streams)

\* the top of "while self.reconnect_attempts < self.max_reconnect_attempts",
\* with attempts the value of the counter: the loop body is entered, or the
\* generator falls off its end
WhileTop(attempts, strs) ==
    IF attempts < max_reconnect_attempts
    THEN [pc |-> "connecting", streams |-> strs]
    ELSE [pc |-> "idle",
          streams |-> [strs EXCEPT ![Len(strs)].outcome = "returned",
                                   ![Len(strs)].cause = "exhausted"]]

\* the finally clause
Finally(ws) == IF ws # "none" THEN "closed" ELSE ws

CountConnect(n) == IF n < MaxConnects THEN n + 1 ELSE n

\* start_stream(audio_stream), iterated up to its first await
start_stream ==
    /\ stt_pc = "idle"
    /\ Len(streams) < MaxStreams
    /\ LET w == WhileTop(reconnect_attempts,
                         Append(streams, [connects |-> 0, yielded |-> FALSE,
                                          ended |-> FALSE,
                                          outcome |-> "running", cause |-> "none"]))
       IN  /\ stt_pc' = w.pc
           /\ streams' = w.streams
    /\ UNCHANGED <<reconnect_attempts, websocket, notSttVars>>

\* websockets.connect returns
ConnectOk ==
    /\ stt_pc = "connecting"
    /\ websocket' = "open"
    /\ reconnect_attempts' = 0
    /\ streams' = [streams EXCEPT ![Cur].connects = CountConnect(@)]
    /\ stt_pc' = "streaming"
    /\ UNCHANGED notSttVars

\* websockets.connect raises InvalidHandshake, InvalidURI or ConnectionClosed
ConnectFail ==
    /\ stt_pc = "connecting"
    /\ reconnect_attempts' = reconnect_attempts + 1
    /\ websocket' = Finally(websocket)
    /\ streams' = [streams EXCEPT ![Cur].connects = CountConnect(@)]
    /\ stt_pc' = "backoff"
    /\ UNCHANGED notSttVars

\* websockets.connect raises anything else (refused, timed out): break
ConnectError ==
    /\ stt_pc = "connecting"
    /\ websocket' = Finally(websocket)
    /\ streams' = [streams EXCEPT ![Cur].connects = CountConnect(@),
                                  ![Cur].outcome = "returned",
                                  ![Cur].cause = "error"]
    /\ stt_pc' = "idle"
    /\ UNCHANGED <<reconnect_attempts, notSttVars>>

\* a chunk is sent, a response received and a result yielded
Yield ==
    /\ stt_pc = "streaming" /\ ~streams[Cur].ended
    /\ streams' = [streams EXCEPT ![Cur].yielded = TRUE]
    /\ UNCHANGED <<reconnect_attempts, websocket, stt_pc, notSttVars>>

\* send or recv raises ConnectionClosed: the transport dropped
Drop ==
    /\ stt_pc = "streaming" /\ ~streams[Cur].ended
    /\ reconnect_attempts' = reconnect_attempts + 1
    /\ websocket' = Finally(websocket)
    /\ stt_pc' = "backoff"
    /\ UNCHANGED <<streams, notSttVars>>

\* send, recv or json.loads raises anything else: break
StreamError ==
    /\ stt_pc = "streaming" /\ ~streams[Cur].ended
    /\ websocket' = Finally(websocket)
    /\ streams' = [streams EXCEPT ![Cur].outcome = "returned", ![Cur].cause = "error"]
    /\ stt_pc' = "idle"
    /\ UNCHANGED <<reconnect_attempts, notSttVars>>

\* the audio iterator is exhausted (and stays so: "ended"): the try block
\* ends, the finally clause runs, the while goes round
AudioEnd ==
    /\ stt_pc = "streaming"
    /\ websocket' = Finally(websocket)
    /\ LET w == WhileTop(reconnect_attempts, [streams EXCEPT ![Cur].ended = TRUE])
       IN  /\ stt_pc' = w.pc
           /\ streams' = w.streams
    /\ UNCHANGED <<reconnect_attempts, notSttVars>>

\* asyncio.sleep(2 ** reconnect_attempts) returns: continue
BackoffDone ==
    /\ stt_pc = "backoff"
    /\ LET w == WhileTop(reconnect_attempts, streams)
       IN  /\ stt_pc' = w.pc
           /\ streams' = w.streams
    /\ UNCHANGED <<reconnect_attempts, websocket, notSttVars>>

NextStt ==
    \/ start_stream
    \/ ConnectOk
    \/ ConnectFail
    \/ ConnectError
    \/ Yield
    \/ Drop
    \/ StreamError
    \/ AudioEnd
    \/ BackoffDone

SpecStt == Init /\ [][NextStt]_vars

(***************************************************************************)
(* lib/llm_client.py: LLMClient._check_rate_limit, awaited at the start of *)
(* generate and generate_stream.  A call either returns at once or is      *)
(* suspended in asyncio.sleep and returns when it wakes.                   *)
(***************************************************************************)
\* _check_rate_limit, up to its return or its sleep
check_rate_limit ==
    /\ Len(passes) + Len(sleepers) < MaxLlmCalls
    /\ LET current_time == clock
           expired      == current_time - minute_start > minute
           count        == IF expired THEN 0 ELSE requests_this_minute
           start        == IF expired THEN current_time ELSE minute_start
           wait_time    == minute - (current_time - start)
       IN  IF count >= rate_limit_per_minute /\ wait_time > 0
           THEN /\ sleepers' = Append(sleepers, current_time + wait_time)
                /\ requests_this_minute' = count
                /\ minute_start' = start
                /\ UNCHANGED passes
           ELSE /\ requests_this_minute' = count + 1
                /\ minute_start' = start
                /\ passes' = Append(passes, current_time)
                /\ UNCHANGED sleepers
    /\ UNCHANGED <<clock, notLlmVars>>

\* _check_rate_limit: asyncio.sleep(wait_time) returns in call i
WakeUp(i) ==
    /\ i \in 1..Len(sleepers)
    /\ sleepers[i] <= clock
    /\ requests_this_minute' = 0 + 1
    /\ minute_start' = clock
    /\ passes' = Append(passes, clock)
    /\ sleepers' = SubSeq(sleepers, 1, i - 1) \o SubSeq(sleepers, i + 1, Len(sleepers))
    /\ UNCHANGED <<clock, notLlmVars>>

\* time passes
ClockTick(d) ==
    /\ clock + d <= MaxClock
    /\ clock' = clock + d
    /\ UNCHANGED <<requests_this_minute, minute_start, sleepers, passes, notLlmVars>>

NextLlm ==
    \/ check_rate_limit
    \/ \E i \in 1..Len(sleepers) : WakeUp(i)
    \/ \E d \in ClockSteps : ClockTick(d)

SpecLlm == Init /\ [][NextLlm]_vars

(***************************************************************************)
(* lib/llm_client.py: LLMClient._build_messages.  A turn is a record with  *)
(* role and content; content is a sequence of characters.                  *)
(***************************************************************************)
RECURSIVE lstrip(_)
\* str.lstrip()
lstrip(text) ==
    IF text # <<>> /\ Head(text) \in Whitespace THEN lstrip(Tail(text)) ELSE text

\* str.strip()
strip(text) == lstrip(rstrip(text))

\* list[-n:] for an int n >= 0: -0 is 0, so list[-0:] is the whole list
SliceLast(list, n) == IF n = 0 THEN list ELSE LastN(list, n)

RECURSIVE ForwardTurns(_)
\* the for loop of _build_messages over the sliced context
ForwardTurns(window) ==
    IF window = <<>> THEN <<>>
    ELSE LET turn == Head(window)
         IN  (IF turn.role \in {"user", "assistant"} /\ strip(turn.content) # <<>>
              THEN <<[role |-> turn.role, content |-> turn.content]>>
              ELSE <<>>)
             \o ForwardTurns(Tail(window))

\* _build_messages(conversation_context, user_message), with the configured
\* max_history_turns
build_messages(context, user_message, max_history_turns) ==
    ForwardTurns(SliceLast(context, max_history_turns))
        \o <<[role |-> "user", content |-> user_message]>>

\* the caller's history grows by a turn
ContextAppend(turn) ==
    /\ Len(conversation_context) < MaxContext
    /\ conversation_context' = Append(conversation_context, turn)
    /\ UNCHANGED <<built, notMsgVars>>

\* a call of _build_messages on a client configured with max_history_turns
BuildMessages(user_message, max_history_turns) ==
    /\ Len(built) < MaxBuilds
    /\ built' = Append(built,
           [context |-> conversation_context,
            user_message |-> user_message,
            max_history_turns |-> max_history_turns,
            messages |-> build_messages(conversation_context, user_message,
                                        max_history_turns)])
    /\ UNCHANGED <<conversation_context, notMsgVars>>

NextMsg ==
    \/ \E turn \in ContextTurns : ContextAppend(turn)
    \/ \E user_message \in UserMessages, n \in 0..MaxHistory :
           BuildMessages(user_message, n)

SpecMsg == Init /\ [][NextMsg]_vars

(***************************************************************************)
(* lib/interruption_handler.py: a SpeechQueue used on its own.  The value  *)
(* get_next returns is the item it popped, whose id it stores in           *)
(* current_speech_id, or None (here <<>>) when the queue was empty.        *)
(***************************************************************************)
QueueAdd(priority) ==
    /\ next_speech_id < MaxQueued
    /\ SpeechQueue_add(priority)
    /\ UNCHANGED <<got, notQueueVars>>

QueueGetNext ==
    /\ SpeechQueue_get_next
    /\ got' = [called |-> TRUE,
               before |-> speech_queue,
               result |-> IF speech_queue' # speech_queue
                          THEN SelectSeq(speech_queue,
                                         LAMBDA item : item.id = current_speech_id')
                          ELSE <<>>,
               after |-> speech_queue']
    /\ UNCHANGED notQueueVars

QueueClear ==
    /\ SpeechQueue_clear
    /\ UNCHANGED <<got, notQueueVars>>

NextQueue ==
    \/ \E p \in Priorities : QueueAdd(p)
    \/ QueueGetNext
    \/ QueueClear

SpecQueue == Init /\ [][NextQueue]_vars

(***************************************************************************)
(* FairSpecTurn: one streaming turn on its own, with a TTS that delivers   *)
(* up to MaxBurst frames.  Every step of the coroutine and of its playback *)
(* task is eventually taken when it can be; the LLM and the TTS are under  *)
(* no obligation to produce.                                               *)
(***************************************************************************)
TurnInternal ==
    \/ LlmEnd(1)
    \/ CloseTts(1)
    \/ PutNone(1)
    \/ \E ok \in BOOLEAN : playback_loop(1, ok)
    \/ playback_timeout(1)
    \/ Finish(1)

NextTurn ==
    \/ \E c \in CallIds : first_transcript(c)
    \/ \E ok \in BOOLEAN : TtsConnect(1, ok)
    \/ \E token \in TokenSet : LlmToken(1, token)
    \/ LlmEnd(1)
    \/ LlmFail(1)
    \/ CloseTts(1)
    \/ PutNone(1)
    \/ audio_callback_within(1, MaxBurst)
    \/ \E ok \in BOOLEAN : playback_loop(1, ok)
    \/ playback_timeout(1)
    \/ Finish(1)

SpecTurn == Init /\ [][NextTurn]_vars

FairSpecTurn == SpecTurn /\ WF_vars(TurnInternal)

(***************************************************************************)
(* lib/audio_buffer.py: an AudioBuffer whose start_playback, stop_playback,*)
(* interrupt and reset are called directly.                                *)
(***************************************************************************)
\* AudioBuffer.stop_playback(smooth), up to its await of the playback task;
\* _apply_fadeout returns the chunk it is given
stop_playback ==
    IF ~buffer_is_playing
    THEN UNCHANGED <<buffer_is_playing, stoppers>>
    ELSE /\ buffer_is_playing' = FALSE
         /\ stoppers' = IF tasks # <<>> THEN stoppers \cup {Len(tasks)} ELSE stoppers

BufStart ==
    /\ Len(tasks) + starters < MaxPlaybacks
    /\ start_playback
    /\ ctl' = IF buffer_is_playing THEN ctl
              ELSE [ctl EXCEPT !.since_interrupt = FALSE,
                               !.restarted = ctl.since_interrupt \/ ctl.restarted]
    /\ delivered_speaking' = FALSE
    /\ UNCHANGED <<buffer, total_buffered_bytes, overruns, sink, handed, cleared,
                   stoppers, notStopVars>>

BufStop ==
    /\ stop_playback
    /\ ctl' = [ctl EXCEPT !.restarted = FALSE]
    /\ delivered_speaking' = FALSE
    /\ UNCHANGED <<buffer, total_buffered_bytes, interrupted, on_chunk_callback,
                   overruns, tasks, starters, sink, handed, cleared, notStopVars>>

BufInterrupt ==
    /\ AudioBuffer_interrupt
    /\ ctl' = [since_interrupt |-> TRUE, handed_at |-> handed, restarted |-> FALSE]
    /\ delivered_speaking' = FALSE
    /\ UNCHANGED <<stoppers, notStopVars>>

BufReset ==
    /\ reset
    /\ ctl' = [ctl EXCEPT !.since_interrupt = FALSE, !.restarted = FALSE]
    /\ delivered_speaking' = FALSE
    /\ UNCHANGED <<stoppers, notStopVars>>

\* stop_playback: wait_for(self.playback_task, 1.0) times out; the task is
\* cancelled
StopTimeout(k) ==
    /\ k \in stoppers
    /\ tasks[k] # "done"
    /\ tasks' = [tasks EXCEPT ![k] = CancelTask(@)]
    /\ stoppers' = stoppers \ {k}
    /\ delivered_speaking' = FALSE
    /\ UNCHANGED <<buffer, total_buffered_bytes, buffer_is_playing, interrupted,
                   on_chunk_callback, overruns, starters, sink, handed, cleared,
                   ctl, notStopVars>>

\* stop_playback: the awaited task has finished
StopReturns(k) ==
    /\ k \in stoppers
    /\ tasks[k] = "done"
    /\ stoppers' = stoppers \ {k}
    /\ delivered_speaking' = FALSE
    /\ UNCHANGED <<bufferVars, sink, handed, cleared, ctl, notStopVars>>

StopStep == \E k \in stoppers : StopTimeout(k) \/ StopReturns(k)

NextPlayback ==
    \/ \E n \in AudioSizes : AddAudio(n)
    \/ BufStart
    \/ BufStop
    \/ BufInterrupt
    \/ BufReset
    \/ PlaybackStep
    \/ PlaybackCancelStep
    \/ JitterStep
    \/ \E k \in 1..MaxPlaybacks : StopTimeout(k)
    \/ \E k \in 1..MaxPlaybacks : StopReturns(k)

SpecPlayback == Init /\ [][NextPlayback]_vars

\* asyncio runs every ready task, wakes every sleeper and fires every timeout
FairSpecPlayback ==
    /\ SpecPlayback
    /\ WF_vars(PlaybackStep)
    /\ WF_vars(PlaybackCancelStep)
    /\ WF_vars(JitterStep)
    /\ WF_vars(StopStep)

(***************************************************************************)
(* lib/enhanced_vad.py: EnhancedVAD.  The object is the record vad; its    *)
(* private methods are operators from a record (and the time) to the new   *)
(* record and the callbacks fired.  Energies are in thousandths.           *)
(***************************************************************************)
RECURSIVE Sum(_)
Sum(s) == IF s = <<>> THEN 0 ELSE Head(s) + Sum(Tail(s))

\* _trigger_speech_ended as it would be without the minimum-duration check
trigger_speech_ended_unfiltered(v, t) ==
    IF ~v.is_speech_active
    THEN [vad |-> v, fired |-> <<>>, filtered |-> FALSE]
    ELSE [vad |-> [v EXCEPT !.is_speech_active = FALSE, !.speech_start_time = NoTime],
          fired |-> <<"speech_ended">>, filtered |-> FALSE]

\* _trigger_speech_ended(), at time t
trigger_speech_ended(v, t) ==
    IF ~v.is_speech_active
    THEN [vad |-> v, fired |-> <<>>, filtered |-> FALSE]
    ELSE IF v.speech_start_time # NoTime
            /\ t - v.speech_start_time < min_speech_duration_ms
         THEN [vad |-> [v EXCEPT !.filtered_events = @ + 1,
                                 !.is_speech_active = FALSE,
                                 !.speech_start_time = NoTime],
               fired |-> <<>>, filtered |-> TRUE]
         ELSE [vad |-> [v EXCEPT !.is_speech_active = FALSE,
                                 !.speech_start_time = NoTime],
               fired |-> <<"speech_ended">>, filtered |-> FALSE]

\* _trigger_speech_started(), at time t
trigger_speech_started(v, t) ==
    IF v.is_speech_active
    THEN [vad |-> v, fired |-> <<>>, filtered |-> FALSE]
    ELSE [vad |-> [v EXCEPT !.is_speech_active = TRUE,
                            !.speech_start_time = t,
                            !.total_speech_events = @ + 1],
          fired |-> <<"speech_started">>, filtered |-> FALSE]

\* deque(maxlen=energy_window_size).append(energy)
DequeAppend(buf, energy) ==
    IF Len(buf) < energy_window_size THEN Append(buf, energy)
    ELSE Append(Tail(buf), energy)

\* on_deepgram_vad_event(event_type), as far as the EnhancedVAD object goes
VadDeepgram(event_type) ==
    /\ vad.deepgram_events < MaxVadEvents
    /\ LET v0 == [vad EXCEPT !.last_deepgram_event = event_type,
                             !.deepgram_events = @ + 1]
           debounced == /\ vad.last_event_time # NoTime
                        /\ now - vad.last_event_time < debounce_ms
           v1 == [v0 EXCEPT !.last_event_time = now]
           out == IF debounced THEN [vad |-> v0, fired |-> <<>>, filtered |-> FALSE]
                  ELSE IF event_type = "SpeechStarted" THEN trigger_speech_started(v1, now)
                  ELSE IF event_type = "UtteranceEnd" THEN trigger_speech_ended(v1, now)
                  ELSE [vad |-> v1, fired |-> <<>>, filtered |-> FALSE]
       IN  /\ vad' = out.vad
           /\ vad_obs' = [vad_obs EXCEPT
                            !.callbacks = @ \o out.fired,
                            !.events = @ + 1,
                            !.prev_event_time = now,
                            !.filtered_by = IF out.filtered THEN @ \cup {"deepgram"} ELSE @]

\* on_deepgram_vad_event(event_type) of an EnhancedVAD without callbacks
on_deepgram_vad_event(event_type) ==
    /\ VadDeepgram(event_type)
    /\ UNCHANGED <<now, delivered_speaking, notVadVars>>

\* process_audio_frame(audio_data), energy being _calculate_energy(audio_data),
\* as far as the EnhancedVAD object goes
VadFrame(energy) ==
    /\ vad_obs.frames < MaxVadFrames
    /\ energy > energy_threshold => vad_obs.loud < MaxLoud
    /\ LET buf == DequeAppend(vad.energy_buffer, energy)
           v0 == [vad EXCEPT !.energy_buffer = buf]
           full == ~(Len(buf) < energy_window_size)
           is_speech == Sum(buf) > energy_threshold * Len(buf)
           starts == full /\ is_speech /\ ~vad.is_speech_active
           ends == full /\ ~is_speech /\ vad.is_speech_active
           out == IF starts
                  THEN trigger_speech_started(
                           [v0 EXCEPT !.local_vad_events = @ + 1], now)
                  ELSE IF ends /\ vad.speech_start_time # NoTime
                  THEN IF now - vad.speech_start_time >= min_speech_duration_ms
                       THEN trigger_speech_ended(v0, now)
                       ELSE [vad |-> [v0 EXCEPT !.filtered_events = @ + 1,
                                                !.is_speech_active = FALSE,
                                                !.speech_start_time = NoTime],
                             fired |-> <<>>, filtered |-> TRUE]
                  ELSE [vad |-> v0, fired |-> <<>>, filtered |-> FALSE]
       IN  /\ vad' = out.vad
           /\ vad_obs' = [vad_obs EXCEPT
                            !.callbacks = @ \o out.fired,
                            !.frames = @ + 1,
                            !.loud = IF energy > energy_threshold THEN @ + 1 ELSE @,
                            !.events = IF starts \/ ends THEN @ + 1 ELSE @,
                            !.prev_event_time = IF starts \/ ends THEN now ELSE @,
                            !.filtered_by = IF out.filtered THEN @ \cup {"local"} ELSE @]

\* process_audio_frame(audio_data) of an EnhancedVAD without callbacks
process_audio_frame(energy) ==
    /\ VadFrame(energy)
    /\ UNCHANGED <<now, delivered_speaking, notVadVars>>

\* the wall clock advances
VadTick(d) ==
    /\ now + d <= MaxTime
    /\ now' = now + d
    /\ UNCHANGED <<delivered_speaking, vadVars, notVadVars>>

NextVad ==
    \/ \E event_type \in {"SpeechStarted", "UtteranceEnd"} :
           on_deepgram_vad_event(event_type)
    \/ \E energy \in EnergyLevels : process_audio_frame(energy)
    \/ \E d \in Delta : VadTick(d)

SpecVad == Init /\ [][NextVad]_vars

(***************************************************************************)
(* EnhancedVAD constructed with the InterruptionHandler's methods as its   *)
(* callbacks: 'await self.on_speech_started()' (enhanced_vad.py:174) and    *)
(* 'await self.on_speech_ended()' (line 206) run the handler's methods       *)
(* within the VAD's own step.                                              *)
(***************************************************************************)
besideVadVars == <<orchVars, apiVars, pipeVars, mediaVars, convVars, sttVars, llmVars,
                   msgVars, gotVars, stopVars, coordVars, genVars>>

\* the callback the VAD step has just fired, run to its end
FiredCallback ==
    IF Len(vad_obs'.callbacks) = Len(vad_obs.callbacks)
    THEN UNCHANGED <<handlerVars, queueVars, controller_is_playing, bufferVars,
                     obsVars, delivered_speaking>>
    ELSE IF vad_obs'.callbacks[Len(vad_obs'.callbacks)] = "speech_started"
         THEN HandlerSpeechStarted
         ELSE HandlerSpeechEnded

WiredDeepgramEvent(event_type) ==
    /\ VadDeepgram(event_type)
    /\ FiredCallback
    /\ UNCHANGED <<now, besideVadVars>>

WiredAudioFrame(energy) ==
    /\ VadFrame(energy)
    /\ FiredCallback
    /\ UNCHANGED <<now, besideVadVars>>

NextWired ==
    \/ \E event_type \in {"SpeechStarted", "UtteranceEnd"} :
           WiredDeepgramEvent(event_type)
    \/ \E energy \in EnergyLevels : WiredAudioFrame(energy)
    \/ \E d \in Delta : Tick(d)
    \/ start_speaking

SpecWired == Init /\ [][NextWired]_vars

(***************************************************************************)
(* lib/streaming_orchestrator.py: a StreamCoordinator with the default     *)
(* chunk_size, called directly.                                            *)
(***************************************************************************)
\* StreamCoordinator.add_token(token)
CoordAddToken(token) ==
    /\ coord_obs.calls < MaxCoordCalls
    /\ LET c == add_token_sized(coordinator.buffer, token, chunk_size) IN
       /\ coordinator' = [coordinator EXCEPT !.buffer = c.buffer]
       /\ coord_obs' = [calls |-> coord_obs.calls + 1, called |-> "add_token",
                        before |-> coordinator.buffer, token |-> token,
                        returned |-> [none |-> c.chunk = <<>>, text |-> c.chunk]]
    /\ UNCHANGED notCoordVars

\* StreamCoordinator.flush()
CoordFlush ==
    /\ coord_obs.calls < MaxCoordCalls
    /\ LET f == flush(coordinator.buffer, coordinator.flushed) IN
       /\ coordinator' = [buffer |-> f.buffer, flushed |-> f.flushed]
       /\ coord_obs' = [calls |-> coord_obs.calls + 1, called |-> "flush",
                        before |-> coordinator.buffer, token |-> <<>>,
                        returned |-> [none |-> f.chunk = <<>>, text |-> f.chunk]]
    /\ UNCHANGED notCoordVars

NextCoord ==
    \/ \E token \in CoordTokens : CoordAddToken(token)
    \/ CoordFlush

SpecCoord == Init /\ [][NextCoord]_vars

(***************************************************************************)
(* lib/llm_client.py: the retry loop of LLMClient.generate_stream and      *)
(* LLMClient.generate.  A call is a record:                                *)
(*   kind      "stream" (generate_stream) or "create" (generate)           *)
(*   pc        "rate_limit" | "attempt" | "backoff" | "returned" | "raised" *)
(*   attempt   the loop variable                                           *)
(*   cur       the tokens the API streamed in the current attempt          *)
(*   yielded   every token the caller received, in order                   *)
(*   errors    the errors of the failed attempts (numbered), in order      *)
(*   waits     the backoff sleeps made (ms), in order                      *)
(*   raised    the error raised to the caller, 0 if none                   *)
(* The wait inside _check_rate_limit is the limiter's (see above); here    *)
(* the call leaves it at some time.                                        *)
(***************************************************************************)
RECURSIVE Pow(_, _)
Pow(b, e) == IF e = 0 THEN 1 ELSE b * Pow(b, e - 1)

Min(a, b) == IF a <= b THEN a ELSE b

\* a backoff that does not grow with the attempt
backoff_ms_flat(attempt) == Min(initial_backoff_ms, max_backoff_ms)

\* min(initial_backoff_ms * exponential_base ** attempt, max_backoff_ms)
backoff_ms(attempt) ==
    Min(initial_backoff_ms * Pow(exponential_base, attempt), max_backoff_ms)

\* generate_stream(...) or generate(...) is called: await _check_rate_limit()
GenCall(kind) ==
    /\ Len(gens) < MaxGens
    /\ gens' = Append(gens, [kind |-> kind, pc |-> "rate_limit", attempt |-> 0,
                             cur |-> <<>>, yielded |-> <<>>, errors |-> <<>>,
                             waits |-> <<>>, raised |-> 0])
    /\ UNCHANGED <<llm_stats, notGenVars>>

\* _check_rate_limit returns, the messages are built, the first attempt begins
GenAdmitted(g) ==
    /\ g \in 1..Len(gens) /\ gens[g].pc = "rate_limit"
    /\ gens' = [gens EXCEPT ![g].pc = "attempt"]
    /\ UNCHANGED <<llm_stats, notGenVars>>

\* generate_stream: the API streams a text and it is yielded to the caller
StreamToken(g, token) ==
    /\ g \in 1..Len(gens) /\ gens[g].pc = "attempt" /\ gens[g].kind = "stream"
    /\ Len(gens[g].yielded) < MaxYield
    /\ gens' = [gens EXCEPT ![g].cur = Append(@, token),
                            ![g].yielded = Append(@, token)]
    /\ UNCHANGED <<llm_stats, notGenVars>>

\* the attempt succeeds: the stream ends, or messages.create returns
AttemptOk(g) ==
    /\ g \in 1..Len(gens) /\ gens[g].pc = "attempt"
    /\ gens' = [gens EXCEPT ![g].pc = "returned"]
    /\ llm_stats' = [llm_stats EXCEPT !.total_requests = @ + 1,
                                      !.total_tokens_used = @ + Len(gens[g].cur)]
    /\ UNCHANGED notGenVars

\* the attempt raises: "except Exception" of the retry loop
AttemptFail(g) ==
    /\ g \in 1..Len(gens) /\ gens[g].pc = "attempt"
    /\ llm_stats' = [llm_stats EXCEPT !.total_errors = @ + 1]
    /\ LET e == gens[g].attempt + 1 IN
       IF gens[g].attempt < max_attempts - 1
       THEN gens' = [gens EXCEPT ![g].errors = Append(@, e),
                                 ![g].waits = Append(@, backoff_ms(gens[g].attempt)),
                                 ![g].pc = "backoff"]
       ELSE gens' = [gens EXCEPT ![g].errors = Append(@, e),
                                 ![g].raised = e,
                                 ![g].pc = "raised"]
    /\ UNCHANGED notGenVars

\* asyncio.sleep(backoff_ms / 1000) returns: the next attempt begins
GenBackoffDone(g) ==
    /\ g \in 1..Len(gens) /\ gens[g].pc = "backoff"
    /\ gens' = [gens EXCEPT ![g].attempt = @ + 1, ![g].cur = <<>>, ![g].pc = "attempt"]
    /\ UNCHANGED <<llm_stats, notGenVars>>

NextGen ==
    \/ \E kind \in {"stream", "create"} : GenCall(kind)
    \/ \E g \in 1..MaxGens : GenAdmitted(g)
    \/ \E g \in 1..MaxGens, token \in GenTokens : StreamToken(g, token)
    \/ \E g \in 1..MaxGens : AttemptOk(g)
    \/ \E g \in 1..MaxGens : AttemptFail(g)
    \/ \E g \in 1..MaxGens : GenBackoffDone(g)

SpecGen == Init /\ [][NextGen]_vars

(***************************************************************************)
(* lib/streaming_orchestrator.py: StreamingOrchestrator.is_active, asked   *)
(* while calls with different ids are served.  The runs take the           *)
(* sequential path or fail to connect to the TTS.                          *)
(***************************************************************************)
\* str.startswith(prefix)
startswith(text, prefix) ==
    Len(prefix) <= Len(text) /\ SubSeq(text, 1, Len(prefix)) = prefix

\* is_active(call_id); every value stored in active_pipelines is True
is_active(call_id) == \E req_id \in active_pipelines : startswith(req_id, call_id)

NextActive ==
    \/ \E c \in PrefixCalls : process_transcript(c)
    \/ \E r \in RunIds : TtsConnect(r, FALSE)
    \/ \E r \in RunIds, text \in TokenSet : SeqLlm(r, text)
    \/ \E r \in RunIds : SeqTts(r)
    \/ \E r \in RunIds, ok \in BOOLEAN : SeqPlay(r, ok)
    \/ \E r \in RunIds : SeqFail(r)
    \/ \E d \in Delta : Tick(d)

SpecActive == Init /\ [][NextActive]_vars

(***************************************************************************)
(* Claims                                                                  *)
(***************************************************************************)
LegalTransitions ==
    { <<"listening", "processing">>, <<"processing", "speaking">>,
      <<"speaking", "interrupted">>, <<"speaking", "listening">>,
      <<"interrupted", "listening">>, <<"processing", "listening">> }

\* C1: every change of the handler's state is one of the six legal
\* transitions of the state machine.
C1_OnlyLegalTransitions ==
    [][state' # state => <<state, state'>> \in LegalTransitions]_vars

C4_DeliveryOnlyWhileSpeaking ==
    [][Len(sink') > Len(sink) => state = "speaking"]_vars

\* C5: a speech interval that ends less than min_speech_duration_ms after it
\* started (require_confident_speech on) has not caused a barge-in.
C5_ShortIntervalNoBargeIn ==
    [][ ( /\ speech_start_time # NoTime /\ speech_start_time' = NoTime
          /\ require_confident_speech
          /\ (now - speech_start_time) < min_speech_duration_ms )
        => ~barged_interval ]_vars

\* C6: once a barge-in has put the handler in INTERRUPTED, it eventually
\* reaches LISTENING.
C6_InterruptedLeadsToListening ==
    (state = "interrupted") ~> (state = "listening")

\* C2: once speech_started has arrived while the agent was speaking, the
\* sink receives no further audio frame of a turn that was under way: here
\* for the orchestrator's playback pump, whose sink is on_audio.
C2_NoFrameAfterBargeIn ==
    [][barged_interval =>
         \A r \in 1..Len(runs) :
             ~runs[r].after_barge => runs'[r].played = runs[r].played]_vars

\* C7: at most one process_transcript run per call_id is in progress.
C7_OneRunPerCall ==
    \A r1, r2 \in 1..Len(runs) :
        (InProgress(r1) /\ InProgress(r2) /\ runs[r1].call = runs[r2].call)
            => r1 = r2

IsPrefix(a, b) == Len(a) <= Len(b) /\ a = SubSeq(b, 1, Len(a))

\* C8: the response_text of a turn is a prefix of the concatenation, in
\* order, of the tokens the LLM produced on that turn, and it is the whole
\* concatenation once the turn has returned its result.
C8_ResponseTextIsTokenConcatenation ==
    \A r \in 1..Len(runs) :
        /\ IsPrefix(runs[r].response_text, Join(runs[r].produced))
        /\ runs[r].pc = "returned"
              => runs[r].response_text = Join(runs[r].produced)

\* a streaming turn of two different tokens has returned while another turn
\* of the same call was still running
C8_Witness ==
    \E r, q \in 1..Len(runs) :
        /\ runs[r].pc = "returned" /\ runs[r].tts_text # <<>>
        /\ Len(runs[r].produced) >= 2 /\ runs[r].produced[1] # runs[r].produced[2]
        /\ runs[r].played # <<>>
        /\ q # r /\ InProgress(q)

\* C11: the number of tracked active calls never exceeds max_concurrent.
C11_ActiveCallsWithinLimit == Cardinality(active_calls) <= max_concurrent

\* C12: a hangup of a call that has already been removed does not fail: it
\* is answered with success.
C12_SecondHangupSucceeds ==
    \A r \in 1..Len(reqs) :
        (reqs[r].kind = "hangup" /\ reqs[r].repeat /\ reqs[r].pc = "done")
            => reqs[r].status = 200

\* C13: once the call's pipeline has been stopped, its three loops finish
\* and PipelineInstance.start returns.
C13_StoppedPipelineFinishes == (pl_started /\ ~running) ~> start_done

\* C14: every utterance the agent speaks has no assistant turn while its
\* audio is still being streamed, and exactly one once its audio has ended
\* (an utterance is a call of speak that has sent audio).
C14_OneTurnPerUtteranceAtEnd ==
    \A i \in SpeakIds :
        /\ speaks[i].pc \in {"stream", "outbound"} => speaks[i].turns = 0
        /\ (speaks[i].pc = "done" /\ speaks[i].chunks >= 1) => speaks[i].turns = 1

\* C16: after n calls of add_turn the history holds all n turns, in the
\* order they were added.
C16_HistoryHoldsEveryTurn == turns = added

\* C16 (amended): after n calls of add_turn the history holds the last
\* min(n, 10) turns added, unaltered and in the order they were added,
\* identical consecutive turns included.
C16_HistoryHoldsLastTurns ==
    /\ turns = LastN(added, kept_turns)
    /\ turn_count = Len(turns)

C16_Witness ==
    /\ Len(added) > kept_turns
    /\ Len(turns) = kept_turns
    /\ turns[kept_turns - 1] = turns[kept_turns]

\* C15: no partial (is_final = false) STT result is passed to the LLM.
C15_OnlyFinalReachesLlm == FALSE \notin llm_inputs

\* C17: a run whose TTS handshake fails (it leaves "connect" without an open
\* TTS session) goes on in the sequential pipeline instead of raising.
C17_HandshakeFailureFallsBack ==
    [][\A r \in 1..Len(runs) :
          (runs[r].pc = "connect" /\ runs'[r].pc # "connect" /\ ~runs'[r].tts_open)
              => runs'[r].pc = "seq_llm"]_vars

\* C18: a call of start_stream that gave up because the reconnect attempts
\* were exhausted ends with an error in its consumer, not as a completed
\* stream.
C18_ExhaustionIsSurfaced ==
    \A i \in 1..Len(streams) :
        streams[i].cause = "exhausted" => streams[i].outcome = "raised"

\* C19: a call of start_stream that follows one that exhausted its reconnect
\* attempts does not end without having attempted a connection.
C19_LaterStreamConnectsAgain ==
    \A i \in 2..Len(streams) :
        streams[i - 1].cause = "exhausted"
            => ~(streams[i].outcome # "running" /\ streams[i].connects = 0)

\* C20: in the limiter's current one-minute window (from minute_start) at
\* most rate_limit_per_minute calls have got past _check_rate_limit.
C20_AtMostLimitPerWindow ==
    Cardinality({i \in 1..Len(passes) :
                    passes[i] >= minute_start /\ passes[i] < minute_start + minute})
        <= rate_limit_per_minute

\* C21: _build_messages forwards the turns among the last max_history_turns
\* of the context whose role is user or assistant and whose content is not
\* blank, in order, followed by the current user message.
C21_ForwardsWindowThenUserMessage ==
    \A b \in 1..Len(built) :
        built[b].messages =
            SelectSeq(LastN(built[b].context, built[b].max_history_turns),
                      LAMBDA t : t.role \in {"user", "assistant"} /\ strip(t.content) # <<>>)
            \o <<[role |-> "user", content |-> built[b].user_message]>>

\* the pending item that is due next: of the highest priority, and of those
\* the one enqueued first (ids are handed out in the order of enqueueing)
C22_Due(queue) ==
    CHOOSE i \in Range(queue) :
        \A j \in Range(queue) :
            j.priority < i.priority \/ (j.priority = i.priority /\ j.id >= i.id)

\* C22: get_next returns the pending item of the highest priority, among
\* equals the one enqueued first, and removes it and nothing else; it returns
\* nothing when the queue is empty.
C22_GetNextReturnsDueItem ==
    got.called =>
        IF got.before = <<>>
        THEN got.result = <<>> /\ got.after = <<>>
        ELSE /\ got.result = <<C22_Due(got.before)>>
             /\ got.after = SelectSeq(got.before,
                                      LAMBDA item : item # C22_Due(got.before))

C22_Witness ==
    /\ got.called
    /\ Len(got.before) = 3
    /\ \E i, j \in 1..3 :
          /\ i < j
          /\ got.before[i].id > got.before[j].id
    /\ \E i, j \in 1..3 :
          i # j /\ got.before[i].priority = got.before[j].priority

\* C23: a streaming turn whose LLM stream has ended eventually returns or
\* raises.
C23_TurnFinishesAfterLlmEnd ==
    (Len(runs) >= 1 /\ runs[1].pc = "closing")
        ~> (Len(runs) >= 1 /\ runs[1].pc \in {"returned", "raised"})

\* C24: a chunk in the buffer of a playback that was started after an
\* interrupt is eventually delivered to the sink, unless the playback is
\* stopped or interrupted again or an overrun evicts chunks.
C24_RestartedPlaybackDelivers ==
    \A c \in 1..MaxChunks :
        (ctl.restarted /\ c \in Ids(buffer))
            ~> (~ctl.restarted \/ c \in Range(sink) \/ overruns > 0)

\* C25: while the buffer is playing, at most one playback loop task is alive
\* to drain it.
C25_OneDrainingTask ==
    (buffer_is_playing /\ ~interrupted)
        => Cardinality({i \in 1..Len(tasks) : tasks[i] \in {"created", "suspended"}}) <= 1

\* C26: interrupt returns with the buffer empty and total_buffered_bytes 0,
\* and from then until the next start_playback or reset the buffer stays
\* empty (add_audio discards its input) and nothing is delivered to the sink.
C26_InterruptedBufferStaysSilent ==
    [][ctl'.since_interrupt =>
           /\ buffer' = <<>>
           /\ total_buffered_bytes' = 0
           /\ ctl.since_interrupt => sink' = sink]_vars

C26_Witness ==
    /\ ctl.since_interrupt
    /\ handed > ctl.handed_at
    /\ sink # <<>>
    /\ \E i \in 1..Len(tasks) : tasks[i] = "cancel_pending"

\* C27: the chunks reach the sink in the order they were added, none twice.
C27_SinkInOrderOfAdding ==
    \A i, j \in 1..Len(sink) : i < j => sink[i] < sink[j]

C27_Witness ==
    /\ Len(sink) = 2
    /\ sink[2] = 3
    /\ Cardinality({i \in 1..Len(tasks) : tasks[i] \in {"created", "suspended"}}) = 2

\* C28: when a streaming turn has returned its result, every frame the TTS
\* produced for it has been delivered to the sink, in the order of emission.
C28_ReturnedTurnPlayedEveryFrame ==
    \A r \in 1..Len(runs) :
        (runs[r].pc = "returned" /\ runs[r].pump # "none")
            => runs[r].played = [i \in 1..runs[r].made |-> i]

\* C29: a VAD event of either path that arrives within debounce_ms of the
\* previous event fires no callback and leaves is_speech_active unchanged.
C29_EventsWithinDebounceIgnored ==
    [][(/\ vad_obs'.events # vad_obs.events
        /\ vad_obs.prev_event_time # NoTime
        /\ now - vad_obs.prev_event_time < debounce_ms)
           => /\ vad_obs'.callbacks = vad_obs.callbacks
              /\ vad'.is_speech_active = vad.is_speech_active]_vars

\* C30: an event that ends a speech interval less than min_speech_duration_ms
\* after its start fires no callback and adds exactly one to filtered_events,
\* and filtered_events changes in no other way.
C30_ShortIntervalFiltered ==
    [][LET ended_short ==
               /\ vad_obs'.events # vad_obs.events
               /\ vad.is_speech_active /\ ~vad'.is_speech_active
               /\ now - vad.speech_start_time < min_speech_duration_ms
       IN  /\ ended_short => /\ vad_obs'.callbacks = vad_obs.callbacks
                             /\ vad'.filtered_events = vad.filtered_events + 1
                             /\ vad'.speech_start_time = NoTime
           /\ vad'.filtered_events # vad.filtered_events => ended_short]_vars

C30_Witness ==
    /\ vad_obs.filtered_by = {"deepgram", "local"}
    /\ vad.filtered_events = 2
    /\ ~vad.is_speech_active

\* C31: with the handler's methods as the callbacks of EnhancedVAD, every
\* speech interval that ends before min_speech_duration_ms adds exactly one
\* to the handler's false_positives.
C31_ShortIntervalCountsFalsePositive ==
    [][(/\ vad.is_speech_active /\ ~vad'.is_speech_active
        /\ now - vad.speech_start_time < min_speech_duration_ms)
           => false_positives' = false_positives + 1]_vars

\* C32 as stated: add_token returns the whole buffered text and empties the
\* buffer exactly when the text, after the token is appended, has length >=
\* chunk_size, or ends with '.', '!' or '?', or is longer than 100 and ends
\* with ','; otherwise it returns nothing and keeps the text.
C32_Text == Join(coord_obs.before) \o coord_obs.token
C32_ChunkExactlyWhenStated ==
    coord_obs.called = "add_token" =>
        IF \/ Len(C32_Text) >= chunk_size
           \/ C32_Text[Len(C32_Text)] \in {".", "!", "?"}
           \/ (Len(C32_Text) > 100 /\ C32_Text[Len(C32_Text)] = ",")
        THEN /\ coord_obs.returned = [none |-> FALSE, text |-> C32_Text]
             /\ coordinator.buffer = <<>>
        ELSE /\ coord_obs.returned.none
             /\ Join(coordinator.buffer) = C32_Text

\* C32 amended: the same with the break characters looked for at the end of
\* the text once its trailing whitespace is set aside.
C32_Stripped == rstrip(C32_Text)
C32_ChunkExactlyWhenBreakBeforeWhitespace ==
    coord_obs.called = "add_token" =>
        IF \/ Len(C32_Text) >= chunk_size
           \/ (C32_Stripped # <<>> /\ C32_Stripped[Len(C32_Stripped)] \in {".", "!", "?"})
           \/ (/\ Len(C32_Text) > 100 /\ C32_Stripped # <<>>
               /\ C32_Stripped[Len(C32_Stripped)] = ",")
        THEN /\ coord_obs.returned = [none |-> FALSE, text |-> C32_Text]
             /\ coordinator.buffer = <<>>
        ELSE /\ coord_obs.returned.none
             /\ Join(coordinator.buffer) = C32_Text

C32_Witness ==
    /\ coord_obs.called = "add_token"
    /\ coord_obs.token = <<",", " ">>
    /\ Len(C32_Text) > 100
    /\ Len(C32_Text) < chunk_size
    /\ coord_obs.returned = [none |-> FALSE, text |-> C32_Text]

\* C33: in a streaming run that has returned, the text chunks sent to the TTS,
\* joined in order, are the LLM tokens received, joined in order; nothing is
\* left in the coordinator, and the end-of-stream flush gave at most one chunk.
C33_TtsTextIsTokenConcatenation ==
    \A r \in 1..Len(runs) :
        (runs[r].pc = "returned" /\ runs[r].pump # "none") =>
            /\ Join(runs[r].tts_text) = Join(runs[r].produced)
            /\ runs[r].coord = <<>>
            /\ \A i \in 1..Len(runs[r].tts_text) : runs[r].tts_text[i] # <<>>

C33_Witness ==
    \E r \in 1..Len(runs) :
        /\ runs[r].pc = "returned" /\ runs[r].pump # "none"
        /\ runs[r].flushed
        /\ Len(runs[r].produced) = 2
        /\ runs[r].tts_text = <<Join(runs[r].produced)>>

\* C34: a generate or generate_stream call whose attempts all fail has made
\* the initial attempt and 3 retries, has slept 100, 200 and 400 ms between
\* them (doubling from 100 ms, never more than 2 s), and raises the last error.
C34_ThreeRetriesThenRaise ==
    \A g \in 1..Len(gens) :
        gens[g].pc = "raised" =>
            /\ Len(gens[g].errors) = 1 + 3
            /\ gens[g].waits = <<100, 200, 400>>
            /\ gens[g].raised = gens[g].errors[Len(gens[g].errors)]

\* C34 amended: a generate or generate_stream call whose attempts all fail has
\* made max_attempts = 3 attempts (the initial one and 2 retries), has slept
\* 100 and then 200 ms between them, and raises the error of the last attempt;
\* a call raises only after that.
C34_ThreeAttemptsThenRaise ==
    \A g \in 1..Len(gens) :
        /\ gens[g].pc = "raised" =>
              /\ Len(gens[g].errors) = 3
              /\ gens[g].waits = <<100, 200>>
              /\ gens[g].raised = gens[g].errors[Len(gens[g].errors)]
              /\ gens[g].raised = 3
        /\ \A i \in 1..Len(gens[g].waits) : gens[g].waits[i] <= 2000

C34_Witness ==
    /\ Len(gens) = 1
    /\ gens[1].pc = "raised"
    /\ gens[1].waits = <<100, 200>>
    /\ gens[1].yielded # <<>>
    /\ llm_stats.total_errors = 3

\* C35: the tokens a finished generate_stream call has yielded are the tokens
\* of a single attempt, its last one.
C35_YieldedIsOneAttempt ==
    \A g \in 1..Len(gens) :
        (gens[g].kind = "stream" /\ gens[g].pc \in {"returned", "raised"}) =>
            gens[g].yielded = gens[g].cur

\* C36: at the step where start_stream finds its audio stream exhausted, the
\* connection is closed and the generator ends (its transcript stream is
\* over) instead of connecting again.
C36_AudioEndTerminates ==
    [][(/\ stt_pc = "streaming"
        /\ Len(streams') = Len(streams)
        /\ streams'[Len(streams')].ended)
           => /\ websocket' = "closed"
              /\ stt_pc' = "idle"
              /\ streams'[Len(streams')].outcome = "returned"]_vars

\* C37: is_active(call_id) is true exactly when a process_transcript run for
\* that very call_id is in progress.
C37_ActiveIffRunInProgress ==
    \A c \in PrefixCalls :
        is_active(c) <=> \E r \in 1..Len(runs) : runs[r].call = c /\ InProgress(r)

\* C38: once a process_transcript run has ended, by returning or by raising,
\* and no other run with the same request_id is in progress, its request_id
\* is in neither active_pipelines nor the latency tracker's start_times.
C38_NoBookkeepingAfterEnd ==
    \A r \in 1..Len(runs) :
        (/\ ~InProgress(r)
         /\ \A q \in 1..Len(runs) : runs[q].rid = runs[r].rid => ~InProgress(q))
            => /\ runs[r].rid \notin active_pipelines
               /\ runs[r].rid \notin start_times

\* C39: an API hangup of a tracked call whose provider call succeeded does not
\* end in an internal error, whether the carrier's call.hangup webhook for the
\* call came before its completion or not, and the call is then removed.
C39_HangupBesideWebhookSucceeds ==
    \A r \in 1..Len(reqs) :
        (/\ reqs[r].kind = "hangup" /\ reqs[r].pc = "done"
         /\ reqs[r].status # 404 /\ reqs[r].error # "provider")
            => /\ reqs[r].status = 200
               /\ reqs[r].call \in removed

\* C40: no step of a speak() call leaves is_speaking false while a speak()
\* call is still streaming audio to the call (so that a speech_started event
\* during that speech finds is_speaking true and takes the barge-in branch).
C40_SpeakingWhileAnySpeakStreams ==
    [][speaks' # speaks =>
          ((\E i \in 1..Len(speaks') : speaks'[i].pc \in {"stream", "outbound"})
               => ms_is_speaking')]_vars

\* C9: the buffered amount never exceeds max_buffer_size.
C9_BufferNeverExceedsMax ==
    total_buffered_bytes <= max_buffer_size

\* the frames handed to add_audio that are neither buffered nor were played
DroppedFrames == (1..handed) \ (Ids(buffer) \cup Range(sink))

\* C10 (as claimed): overruns equals the number of frames handed to add_audio
\* and dropped instead of being played.
C10_OverrunsCountEveryDroppedFrame ==
    overruns = Cardinality(DroppedFrames)

\* C10 (amended): overruns equals the number of frames add_audio evicted on
\* overflow: the frames handed to add_audio that are neither buffered, nor
\* played, nor discarded by interrupt(), by reset() or by add_audio while
\* interrupted.
C10_OverrunsCountEvictions ==
    overruns = Cardinality(DroppedFrames \ cleared)

\* C10 witness: a run with an eviction, a played frame and a discarded frame.
C10_Witness ==
    overruns > 0 /\ sink # <<>> /\ cleared # {}

====
